---- MODULE Spec2Model ----
(***************************************************************************)
(* Rendering and selection engine of the scatter plot matrix:              *)
(* App state (data, columns, brush selection, filter mode), the            *)
(* ScatterPlotMatrix refs (canvases, last-applied render keys, render      *)
(* cache, drag flag, pending cancel) and the frame-paced render scheduler. *)
(*                                                                         *)
(* Strings that the code builds by joining parts with '-' are modelled as  *)
(* sequences of '-'-free tokens: joining is concatenation of sequences,    *)
(* and two joined strings are equal exactly when the token sequences are.  *)
(* A column name is therefore a token sequence: "a" is <<"a">> and "a-a"   *)
(* is <<"a", "a">>.                                                        *)
(***************************************************************************)
EXTENDS Integers, Sequences, FiniteSets, TLC

(* ------------------------------ bounds -------------------------------- *)
MaxRows == 2
MaxLoads == 2
MaxOps == 2
MaxCacheOps == 7
MaxDataLoads == 3
MaxRunSlots == 2
MaxSelected == 2
MaxBrushOps == 3
ClockCap == 13
MaxHistoryCalls == 6
MaxLiveOps == 1
MaxPanelOps == 4
MaxVisibilityOps == 3

(* -------------------------- program constants ------------------------- *)
MAX_CACHE_ENTRIES_PER_CANVAS == 6
MAX_CACHE_PIXELS_PER_CANVAS == 160000
size == 150
FrameTaskQuota == 4
FrameBudgetMs == 12
HashPrime == 31
HashMod == 2147483647
gridSize == 20
MAX_ENTRIES == 5
MAX_FILE_SIZE == 52428800
MAX_INITIAL_RENDER_POINTS == 15000
padding == 20

ScaleTypes == {"linear", "log"}
FilterModes == {"highlight", "filter"}

\* Header rows a load may carry (numeric columns, in file order).
SchedColumnLists == { << <<"a">>, <<"a", "a">> >>,
                      << <<"a">>, <<"b">>, <<"c">> >> }
CacheColumnLists == { << <<"a">>, <<"b">> >> }
LiveColumnLists == { << <<"a">>, <<"b">>, <<"c">> >> }
\* Time one task may take, in ms.
Durations == {0, 3, 13}

VARIABLES
  data,               \* App: [ids: sequence of row ids, id: serial of the load that made the array]
  columns,            \* App: sequence of [name, scale, visible]
  brushSelection,     \* App: [live, ids, indexX, indexY, rect]; live = FALSE is null.  indexX
                      \* and indexY are 0-based as in the code, rect is <<x0, y0, x1, y1>>
  filterMode,         \* App: "highlight" | "filter"
  dirty,              \* a state update is waiting for React to re-render and run effects
  mounted,            \* ScatterPlotMatrix is in the tree (App renders it iff columns.length > 0)
  canvasElements,     \* canvasElementsRef: set of canvas keys
  canvasPixels,       \* what each canvas shows: canvas key -> image
  canvasRenderKey,    \* canvasRenderKeyRef: canvas key -> last applied render key
  renderCache,        \* renderCacheRef: canvas key -> sequence of [key, image], oldest first
  lastDataState,      \* lastDataStateRef: <<>> is null
  isDragging,         \* isDraggingRef
  dragIndex,          \* react-dnd item.originalIndex of the drag in progress, 0 = none
  pendingRenderCancel,\* pendingRenderCancelRef: run slot, 0 = null
  cancelRender,       \* cleanup closure of the last layout effect: run slot, 0 = no-op
  runs,               \* closures of scheduleCanvasRendering calls that can still act
  tick,               \* position inside processFrame: [run, processed, elapsed]
  emitted,            \* lifecycle events emitted by the last step
  cacheUse,           \* per canvas key: cached keys by last use (insert or hit), oldest first,
                      \* and the key evicted last (<<>> = none yet)
  staleRead,          \* the last step compared or looked up a key of another dataset state
  brushSync,          \* what the last step's brush sync did: the onBrush calls its end events
                      \* led to, and how many of the events carried a rectangle
  probe,              \* last call of a utility function: its name, arguments and result
  fileStore,          \* the object store 'files' of the history database, its key generator,
                      \* the clock, and the last call made on it
  panel,              \* App with derived displayColumns: base columns, columnFilter, and the
                      \* last handler call
  ops, loads          \* exploration counters

vars == << data, columns, brushSelection, filterMode, dirty, mounted, canvasElements,
           canvasPixels, canvasRenderKey, renderCache, lastDataState, isDragging,
           dragIndex, pendingRenderCancel, cancelRender, runs, tick, emitted, cacheUse,
           staleRead, brushSync, probe, fileStore, panel, ops, loads >>

\* Everything but the record of the last utility call.
programVars == << data, columns, brushSelection, filterMode, dirty, mounted, canvasElements,
                  canvasPixels, canvasRenderKey, renderCache, lastDataState, isDragging,
                  dragIndex, pendingRenderCancel, cancelRender, runs, tick, emitted, cacheUse,
                  staleRead, brushSync, fileStore, panel, ops, loads >>

\* Everything but the column panel.
matrixVars == << data, columns, brushSelection, filterMode, dirty, mounted, canvasElements,
                 canvasPixels, canvasRenderKey, renderCache, lastDataState, isDragging,
                 dragIndex, pendingRenderCancel, cancelRender, runs, tick, emitted, cacheUse,
                 staleRead, brushSync, probe, fileStore, ops, loads >>

\* Everything but the file history.
pageVars == << data, columns, brushSelection, filterMode, dirty, mounted, canvasElements,
               canvasPixels, canvasRenderKey, renderCache, lastDataState, isDragging,
               dragIndex, pendingRenderCancel, cancelRender, runs, tick, emitted, cacheUse,
               staleRead, brushSync, probe, panel, ops, loads >>


(* ------------------------------ helpers ------------------------------- *)
Min(a, b) == IF a < b THEN a ELSE b
Slots == 1..MaxRunSlots
EmptyMap == [k \in {} |-> <<>>]
MapSet(f, k, v) == (k :> v) @@ f
MapGet(f, k, dflt) == IF k \in DOMAIN f THEN f[k] ELSE dflt

RECURSIVE SortedIds(_)
SortedIds(S) ==
  IF S = {} THEN <<>>
  ELSE LET lo == CHOOSE a \in S : \A b \in S : a <= b
       IN <<lo>> \o SortedIds(S \ {lo})

RECURSIVE FoldHash(_, _, _)
FoldHash(sorted, k, hash) ==
  IF k > Len(sorted) THEN hash
  ELSE FoldHash(sorted, k + 1, (hash * HashPrime + sorted[k]) % HashMod)

\* A sort that leaves the ids in insertion order.
sortKeepsOrder(order) == order

\* Array.from(selectedIds).sort((a, b) => a - b); order is the insertion order of the Set.
sortAscending(order) == SortedIds({order[k] : k \in 1..Len(order)})

\* A hash string without the size in front.
selectedStateHashWithoutSize(order) ==
  IF Len(order) = 0 THEN <<"none">>
  ELSE << ToString(FoldHash(sortAscending(order), 1, 0)) >>

\* Body of computeSelectedStateHash for a Set with the given insertion order: "none", or
\* "<size>-<hash>" as two tokens.
selectedStateHash(order) ==
  IF Len(order) = 0 THEN <<"none">>
  ELSE << ToString(Len(order)), ToString(FoldHash(sortAscending(order), 1, 0)) >>

\* Some order in which a Set with these members was filled (here: descending).
RECURSIVE InsertionOrder(_)
InsertionOrder(S) ==
  IF S = {} THEN <<>>
  ELSE LET hi == CHOOSE a \in S : \A b \in S : a >= b
       IN <<hi>> \o InsertionOrder(S \ {hi})

computeSelectedStateHash(selectedIds) == selectedStateHash(InsertionOrder(selectedIds))

\* dataStateHash: "empty", or "<length>-<firstId>-<lastId>" as three tokens.
dataStateHash(d) ==
  IF Len(d.ids) = 0 THEN <<"empty">>
  ELSE << ToString(Len(d.ids)), ToString(d.ids[1]), ToString(d.ids[Len(d.ids)]) >>

\* A filterData that restricts to the selection in filter mode even when it is empty.
filterDataAlwaysRestricts(d, selectedIds, mode) ==
  LET selectedData == SelectSeq(d.ids, LAMBDA i : i \in selectedIds)
  IN IF mode = "filter"
       THEN [filteredData |-> selectedData, selectedData |-> selectedData]
       ELSE [filteredData |-> d.ids, selectedData |-> selectedData]

\* filterData: the rows the canvases draw.
filterData(d, selectedIds, mode) ==
  LET selectedData == SelectSeq(d.ids, LAMBDA i : i \in selectedIds)
  IN IF mode = "filter" /\ Cardinality(selectedIds) > 0
       THEN [filteredData |-> selectedData, selectedData |-> selectedData]
       ELSE [filteredData |-> d.ids, selectedData |-> selectedData]

selectedIdsOf(bs) == IF bs.live THEN bs.ids ELSE {}

\* mapVisibleColumns: visible index -> original index (both 1-based here).
RECURSIVE VisibleFrom(_, _)
VisibleFrom(cols, k) ==
  IF k > Len(cols) THEN <<>>
  ELSE (IF cols[k].visible THEN <<k>> ELSE <<>>) \o VisibleFrom(cols, k + 1)
visibleIndexToOriginalIndex(cols) == VisibleFrom(cols, 1)

\* d3.cross(range(n), range(n)) filtered to i # j: the brushable cells, in traversal order.
RECURSIVE CellsFrom(_, _, _)
CellsFrom(n, i, j) ==
  IF i > n THEN <<>>
  ELSE IF j > n THEN CellsFrom(n, i + 1, 1)
  ELSE (IF i # j THEN << <<i, j>> >> ELSE <<>>) \o CellsFrom(n, i, j + 1)
brushableCells(n) == CellsFrom(n, 1, 1)

canvasKeyOf(colX, colY) == colX.name \o colY.name
renderKeyOf(colX, colY, mode, dataHash, selectedHash) ==
  colX.name \o colY.name \o <<colX.scale, colY.scale, mode>> \o dataHash \o selectedHash
    \o <<ToString(size)>>

\* Parts of a render key, read from its right end.
KeySelectionPart(k) ==
  IF Len(k) >= 2 /\ k[Len(k) - 1] = "none" THEN <<"none">>
  ELSE SubSeq(k, Len(k) - 2, Len(k) - 1)
KeyDataPart(k) ==
  LET e == Len(k) - 1 - Len(KeySelectionPart(k))
  IN IF k[e] = "empty" THEN <<"empty">> ELSE SubSeq(k, e - 2, e)

\* An image: what renderPointsToCanvas draws from its arguments.
BlankImage == [blank |-> TRUE, dat |-> 0, rows |-> <<>>, xCol |-> <<>>, yCol |-> <<>>,
               xScale |-> "linear", yScale |-> "linear", selected |-> {}, mode |-> "highlight"]
renderPointsToCanvas(dat, rows, task, selected, mode) ==
  [blank |-> FALSE, dat |-> dat, rows |-> rows, xCol |-> task.xCol, yCol |-> task.yCol,
   xScale |-> task.xScale, yScale |-> task.yScale, selected |-> selected, mode |-> mode]

NoRun == [used |-> FALSE, tasks |-> <<>>, completed |-> 0, cancelled |-> FALSE, frame |-> FALSE,
          totalCount |-> 0, dat |-> 0, rows |-> <<>>, selected |-> {}, mode |-> "highlight",
          superseded |-> FALSE, cancelCalled |-> FALSE, idles |-> 0, executed |-> <<>>,
          reported |-> 0, failed |-> FALSE]
NoTick == [run |-> 0, processed |-> 0, elapsed |-> 0, cost |-> 0,
           started |-> FALSE, atProcessed |-> 0, atElapsed |-> 0]
Event(src, phase, total, completed) ==
  [src |-> src, phase |-> phase, total |-> total, completed |-> completed]

NoCall == [fn |-> "none"]

\* null, as a brush rectangle and as a BrushSelection.
Null == <<>>
NoSelection == [live |-> FALSE, ids |-> {}, indexX |-> 0, indexY |-> 0, rect |-> Null]
NoSync == [calls |-> <<>>, moves |-> 0]

\* The refs, as one record that the handlers thread through their calls.
Refs == [elems |-> canvasElements, pixels |-> canvasPixels, keys |-> canvasRenderKey,
         cache |-> renderCache, pending |-> pendingRenderCancel, runs |-> runs,
         cleanup |-> cancelRender, emitted |-> <<>>, uses |-> cacheUse, stale |-> FALSE,
         sync |-> NoSync]
FreshRefs == [elems |-> {}, pixels |-> EmptyMap, keys |-> EmptyMap, cache |-> EmptyMap,
              pending |-> 0, runs |-> runs, cleanup |-> 0, emitted |-> <<>>,
              uses |-> EmptyMap, stale |-> FALSE, sync |-> NoSync]

(* ----------------------------- spatial grid --------------------------- *)
\* A row as the grid functions see it under one pair of scales: its id, whether both raw
\* values are finite, and the screen position the scales give it.
GridRow(id, finite, sx, sy) == [id |-> id, finite |-> finite, sx |-> sx, sy |-> sy]
FloorDiv(a, b) == a \div b
CeilDiv(a, b) == -((-a) \div b)
Max(a, b) == IF a > b THEN a ELSE b
GridCells == (0..(gridSize - 1)) \X (0..(gridSize - 1))

\* createSpatialGrid: each finite row goes to the cell of its screen position, if that cell
\* exists.  Rows are kept in data order.
createSpatialGrid(rows) ==
  LET gx(d) == FloorDiv(d.sx * gridSize, size)
      gy(d) == FloorDiv(d.sy * gridSize, size)
      kept(d) == /\ d.finite
                 /\ gx(d) >= 0 /\ gx(d) < gridSize /\ gy(d) >= 0 /\ gy(d) < gridSize
  IN [g \in GridCells |-> SelectSeq(rows, LAMBDA d : kept(d) /\ gx(d) = g[1] /\ gy(d) = g[2])]

\* getPointsInBrush: scan the cells the rectangle touches, keep the rows inside it.
getPointsInBrush(grid, x0, y0, x1, y1) ==
  LET startGX == Max(0, FloorDiv(x0 * gridSize, size))
      endGX == Min(gridSize - 1, CeilDiv(x1 * gridSize, size))
      startGY == Max(0, FloorDiv(y0 * gridSize, size))
      endGY == Min(gridSize - 1, CeilDiv(y1 * gridSize, size))
      inside(d) == d.sx >= x0 /\ d.sx <= x1 /\ d.sy >= y0 /\ d.sy <= y1
  IN UNION { { grid[<<gx, gy>>][k].id :
                 k \in {e \in 1..Len(grid[<<gx, gy>>]) : inside(grid[<<gx, gy>>][e])} } :
             gx \in startGX..endGX, gy \in startGY..endGY }

(* ---------------------------- column utilities ------------------------ *)
\* Text is a sequence of characters.  The text of a column name joins its tokens with "-".
RECURSIVE NameText(_)
NameText(name) ==
  IF Len(name) <= 1 THEN name ELSE <<name[1], "-">> \o NameText(Tail(name))

toLowerCase(s) == [k \in 1..Len(s) |-> IF s[k] = "A" THEN "a" ELSE s[k]]

\* A trim that keeps the white space.
trimNothing(s) == s

\* String.prototype.trim: drop the white space at both ends.
trim(s) ==
  LET inked == {k \in 1..Len(s) : s[k] # " "}
  IN IF inked = {} THEN <<>>
     ELSE SubSeq(s, CHOOSE k \in inked : \A j \in inked : k <= j,
                    CHOOSE k \in inked : \A j \in inked : k >= j)

\* String.prototype.includes: t occurs in s as a run of characters.
includes(s, t) == \E k \in 0..(Len(s) - Len(t)) : SubSeq(s, k + 1, k + Len(t)) = t

\* An array of columns with its identity: ref tells the arrays of one call apart, "input"
\* being the argument.  Column objects are told apart by their names and flags.
Arr(ref, items) == [ref |-> ref, items |-> items]

sortColumnsByVisibility(arr) ==
  LET visible == SelectSeq(arr.items, LAMBDA c : c.visible)
      hidden == SelectSeq(arr.items, LAMBDA c : ~c.visible)
      sorted == visible \o hidden
  IN IF \E i \in 1..Len(arr.items) : arr.items[i] # sorted[i] THEN Arr("sorted", sorted)
     ELSE arr

\* filterColumns (columnUtils.ts, first definition).
filterColumns(arr, filter) ==
  LET normalizedFilter == toLowerCase(trim(filter))
      shouldShowAll == normalizedFilter = <<>>
      shouldBeVisible(col) ==
        shouldShowAll \/ includes(toLowerCase(NameText(col.name)), normalizedFilter)
      didChange == \E i \in 1..Len(arr.items) :
                     arr.items[i].visible # shouldBeVisible(arr.items[i])
      nextColumns == Arr("nextColumns",
                         [i \in 1..Len(arr.items) |->
                            [arr.items[i] EXCEPT !.visible = shouldBeVisible(arr.items[i])]])
      updatedColumns == IF didChange THEN nextColumns ELSE arr
  IN sortColumnsByVisibility(updatedColumns)

\* filterColumns (columnUtils.ts, second definition): a map over the columns.
filterColumns2(arr, filter) ==
  Arr("mapped",
      [i \in 1..Len(arr.items) |->
         [arr.items[i] EXCEPT !.visible =
            filter = <<>> \/ includes(toLowerCase(NameText(arr.items[i].name)),
                                      toLowerCase(filter))]])

\* A forEach callback that maps hidden columns too.
mapVisibleStepAll(acc, col, originalIndex) ==
  LET visibleIndex == Len(acc.visibleColumns) + 1
  IN [visibleColumns |-> Append(acc.visibleColumns, col),
      visibleToOriginal |-> MapSet(acc.visibleToOriginal, visibleIndex, originalIndex),
      originalToVisible |-> MapSet(acc.originalToVisible, originalIndex, visibleIndex)]

\* The forEach callback of mapVisibleColumns (indices are 1-based here).
mapVisibleStep(acc, col, originalIndex) ==
  IF col.visible
    THEN LET visibleIndex == Len(acc.visibleColumns) + 1
         IN [visibleColumns |-> Append(acc.visibleColumns, col),
             visibleToOriginal |-> MapSet(acc.visibleToOriginal, visibleIndex, originalIndex),
             originalToVisible |-> MapSet(acc.originalToVisible, originalIndex, visibleIndex)]
    ELSE acc

RECURSIVE MapVisibleFrom(_, _, _)
MapVisibleFrom(cols, k, acc) ==
  IF k > Len(cols) THEN acc
  ELSE MapVisibleFrom(cols, k + 1, mapVisibleStep(acc, cols[k], k))

\* mapVisibleColumns: the visible columns and the two index maps.  Map.get of a key that
\* is not in the domain gives undefined.
mapVisibleColumns(cols) ==
  MapVisibleFrom(cols, 1, [visibleColumns |-> <<>>, visibleToOriginal |-> EmptyMap,
                           originalToVisible |-> EmptyMap])

(* ------------------------------- scales -------------------------------- *)
\* Every column of the row with id i holds the value 15 * i / 13.  Values are counted in
\* 13ths (Unit is the value 1), which makes every screen position below a whole number.
Unit == 13
rowValue(id) == 15 * id

\* columnStats of one column over the rows of dataForStats: min and max (minPositive is
\* read by log scales only).
columnStats(rows) ==
  LET vals == {rowValue(rows[k]) : k \in 1..Len(rows)}
      lo == IF vals = {} THEN 0 ELSE CHOOSE a \in vals : \A b \in vals : a <= b
      hi == IF vals = {} THEN Unit ELSE CHOOSE a \in vals : \A b \in vals : a >= b
  IN IF lo = hi THEN [min |-> lo - Unit, max |-> hi + Unit] ELSE [min |-> lo, max |-> hi]

\* d3.scaleLinear().domain([stat.min, stat.max]).range([r0, r1]) applied to the value v.
scaleLinear(stat, r0, r1, v) ==
  r0 + ((v - stat.min) * (r1 - r0)) \div (stat.max - stat.min)
xScale(stat, v) == scaleLinear(stat, padding \div 2, size - padding \div 2, v)
yScale(stat, v) == scaleLinear(stat, size - padding \div 2, padding \div 2, v)

\* scale.invert(p) of the same scale, times (r1 - r0).
invertTimes(stat, r0, r1, p) == stat.min * (r1 - r0) + (p - r0) * (stat.max - stat.min)

(* --------------------------- render scheduler ------------------------- *)
\* cancel with its guard inverted: the first call returns without doing anything.
cancelInverted(m, r) ==
  LET run == m.runs[r]
  IN IF ~run.cancelled THEN m
     ELSE [m EXCEPT !.runs[r].cancelled = TRUE, !.runs[r].frame = FALSE, !.pending = 0,
                    !.emitted = Append(@, Event(r, "idle", run.totalCount,
                                                Min(run.completed, run.totalCount)))]

\* cancel that reports idle and clears the ref but leaves the closure running.
cancelReportOnly(m, r) ==
  LET run == m.runs[r]
  IN [m EXCEPT !.pending = 0,
               !.emitted = Append(@, Event(r, "idle", run.totalCount,
                                           Min(run.completed, run.totalCount)))]

\* cancel closure of one scheduleCanvasRendering call.
cancel(m, r) ==
  LET run == m.runs[r]
  IN IF run.cancelled THEN m
     ELSE [m EXCEPT !.runs[r].cancelled = TRUE,
                    !.runs[r].frame = FALSE,
                    !.pending = 0,
                    !.emitted = Append(@, Event(r, "idle", run.totalCount,
                                                Min(run.completed, run.totalCount)))]

\* A call of a cancel closure held in a ref or in an effect cleanup (0 = none / no-op).
callCancel(m, r) ==
  IF r = 0 \/ ~m.runs[r].used THEN m
  ELSE cancel([m EXCEPT !.runs[r].cancelCalled = TRUE], r)

cancelPendingRenders(m) ==
  IF m.pending # 0 THEN [callCancel(m, m.pending) EXCEPT !.pending = 0] ELSE m

FreeSlot(rs) == CHOOSE r \in Slots : ~rs[r].used /\ \A q \in Slots : ~rs[q].used => r <= q
HasFreeSlot(rs) == \E r \in Slots : ~rs[r].used

scheduleCanvasRendering(m, tasks, totalPairs, dat, rows, selected, mode) ==
  LET m1 == cancelPendingRenders(m)
      m2 == [m1 EXCEPT !.runs = [r \in Slots |-> [m1.runs[r] EXCEPT !.superseded = m1.runs[r].used]]]
      slot == FreeSlot(m2.runs)
      totalCount == IF totalPairs > 0 THEN totalPairs ELSE Len(tasks)
  IN IF Len(tasks) = 0
       THEN [m2 EXCEPT !.emitted = Append(@, Event(0, "idle", totalPairs, totalPairs)),
                       !.cleanup = 0]
       ELSE [m2 EXCEPT !.runs[slot] = [NoRun EXCEPT !.used = TRUE, !.tasks = tasks, !.frame = TRUE,
                                                    !.executed = [k \in 1..Len(tasks) |-> 0],
                                                    !.totalCount = totalCount, !.dat = dat,
                                                    !.rows = rows, !.selected = selected,
                                                    !.mode = mode],
                       !.emitted = Append(@, Event(slot, "rendering", totalCount, 0)),
                       !.pending = slot,
                       !.cleanup = slot]

(* ---------------------- layout effect of the matrix ------------------- *)
\* What one layout pass reads: the props and memos of the render it belongs to.
\* Stats over the selected rows whenever there is a selection, whatever the mode.
dataForStatsOfSelection(d, selectedIds, mode, filteredData) ==
  IF Cardinality(selectedIds) > 0 THEN SelectSeq(d.ids, LAMBDA i : i \in selectedIds) ELSE d.ids

\* dataForStats: the rows the column stats are computed over.
dataForStats(d, selectedIds, mode, filteredData) ==
  IF mode = "filter" /\ Cardinality(selectedIds) > 0 THEN filteredData ELSE d.ids

Context(d, cols, bs, mode, dragging) ==
  [cols |-> cols,
   vis |-> visibleIndexToOriginalIndex(cols),
   mode |-> mode,
   d |-> d,
   selectedIds |-> selectedIdsOf(bs),
   allowCanvasCache |-> Cardinality(selectedIdsOf(bs)) = 0,
   dataStateHash |-> dataStateHash(d),
   selectedStateHash |-> computeSelectedStateHash(selectedIdsOf(bs)),
   filteredData |-> filterData(d, selectedIdsOf(bs), mode).filteredData,
   dragging |-> dragging,
   bs |-> bs,
   stat |-> columnStats(dataForStats(d, selectedIdsOf(bs), mode,
                                     filterData(d, selectedIdsOf(bs), mode).filteredData))]

\* Use order of one cell's cache: key k has just been used; evictedKeys left the cache.
NoUse == [order |-> <<>>, evicted |-> <<>>]
Used(u, k, kept) ==
  LET order == SelectSeq(Append(SelectSeq(u.order, LAMBDA j : j # k), k), LAMBDA j : j \in kept)
      gone == {j \in {u.order[e] : e \in 1..Len(u.order)} : j \notin kept}
  IN [order |-> order, evicted |-> IF gone = {} THEN u.evicted ELSE CHOOSE j \in gone : TRUE]
CacheKeys(entries) == {entries[e].key : e \in 1..Len(entries)}

CacheIndex(entries, key) == {e \in 1..Len(entries) : entries[e].key = key}
CacheWithout(entries, key) == SelectSeq(entries, LAMBDA e : e.key # key)

\* A cache hit that leaves the entry where it was.
cacheTouchKeepsPlace(entries, key) == entries

\* Cache hit: delete and re-set the entry, which moves it to the young end.
cacheTouch(entries, key) ==
  Append(CacheWithout(entries, key), entries[CHOOSE e \in CacheIndex(entries, key) : TRUE])

\* Body of brushableCells.each for one cell; st = [m, tasks, active].
layoutCell(st, cell, cx) ==
  LET colX == cx.cols[cx.vis[cell[1]]]
      colY == cx.cols[cx.vis[cell[2]]]
      canvasKey == canvasKeyOf(colX, colY)
      renderKey == renderKeyOf(colX, colY, cx.mode, cx.dataStateHash, cx.selectedStateHash)
      m1 == IF canvasKey \in st.m.elems THEN st.m
            ELSE [st.m EXCEPT !.elems = @ \cup {canvasKey},
                              !.pixels = MapSet(@, canvasKey, BlankImage)]
      s1 == [st EXCEPT !.m = m1, !.active = @ \cup {canvasKey}]
      cacheForCanvas == IF cx.allowCanvasCache THEN MapGet(m1.cache, canvasKey, <<>>) ELSE <<>>
      hit == CacheIndex(cacheForCanvas, renderKey)
      cachedImage == cacheForCanvas[CHOOSE e \in hit : TRUE]
      task == [canvasKey |-> canvasKey, renderKey |-> renderKey,
               xScale |-> colX.scale, yScale |-> colY.scale,
               xCol |-> colX.name, yCol |-> colY.name]
      stale == \/ canvasKey \in DOMAIN m1.keys
                  /\ KeyDataPart(m1.keys[canvasKey]) # cx.dataStateHash
               \/ \E k \in CacheKeys(cacheForCanvas) : KeyDataPart(k) # cx.dataStateHash
      s2 == IF cx.dragging THEN s1 ELSE [s1 EXCEPT !.m.stale = @ \/ stale]
  IN IF cx.dragging THEN s2
     ELSE IF canvasKey \in DOMAIN m1.keys /\ m1.keys[canvasKey] = renderKey THEN s2
     ELSE IF hit # {}
       THEN [s2 EXCEPT !.m.pixels = MapSet(@, canvasKey, cachedImage.image),
                       !.m.keys = MapSet(@, canvasKey, renderKey),
                       !.m.cache = MapSet(@, canvasKey, cacheTouch(cacheForCanvas, renderKey)),
                       !.m.uses = MapSet(@, canvasKey,
                                    Used(MapGet(@, canvasKey, NoUse), renderKey,
                                         CacheKeys(cacheForCanvas)))]
       ELSE [s2 EXCEPT !.tasks = Append(@, task)]

RECURSIVE layoutCells(_, _, _, _)
layoutCells(st, cells, k, cx) ==
  IF k > Len(cells) THEN st
  ELSE layoutCells(layoutCell(st, cells[k], cx), cells, k + 1, cx)

\* canvasesToRemove: canvases of cells that are no longer plotted.
removeInactive(m, active) ==
  [m EXCEPT !.elems = @ \cap active,
            !.pixels = [k \in DOMAIN @ \cap active |-> @[k]],
            !.keys = [k \in DOMAIN @ \cap active |-> @[k]]]

(* ---------------------------- brush handlers ------------------------- *)
\* A brush event: whether a pointer event caused it, and the rectangle (2-D brush) or the
\* range (histogram brush) it ends with, Null for none.
BrushEvent(sourceEvent, selection) == [sourceEvent |-> sourceEvent, selection |-> selection]

\* A handler that acts on every event.
ignoresNoEvent(event) == FALSE

\* `if (!event.sourceEvent) return;` at the head of the end handlers.
ignoresEvent(event) == ~event.sourceEvent

\* The rows as the grid sees them under the scales of the current render.
ScreenRows(cx) ==
  [k \in 1..Len(cx.d.ids) |->
     GridRow(cx.d.ids[k], TRUE, xScale(cx.stat, rowValue(cx.d.ids[k])),
             yScale(cx.stat, rowValue(cx.d.ids[k])))]

\* An end handler that tags the selection with the cell's visible indices.
brushEndVisibleIndex(cx, cell, event) ==
  IF ignoresEvent(event) THEN <<>>
  ELSE IF event.selection = Null THEN << NoSelection >>
  ELSE IF cell[1] \notin 1..Len(cx.vis) \/ cell[2] \notin 1..Len(cx.vis) THEN <<>>
  ELSE LET R == event.selection
           grid == createSpatialGrid(ScreenRows(cx))
       IN << [live |-> TRUE, ids |-> getPointsInBrush(grid, R[1], R[2], R[3], R[4]),
              indexX |-> cell[1] - 1, indexY |-> cell[2] - 1, rect |-> R] >>

\* "end" handler of the 2-D brush on the cell <<i_visible, j_visible>>: the sequence of
\* onBrush calls it makes, each with its argument.
brushEnd(cx, cell, event) ==
  IF ignoresEvent(event) THEN <<>>
  ELSE IF event.selection = Null THEN << NoSelection >>
  ELSE IF cell[1] \notin 1..Len(cx.vis) \/ cell[2] \notin 1..Len(cx.vis) THEN <<>>
  ELSE LET i_original == cx.vis[cell[1]] - 1
           j_original == cx.vis[cell[2]] - 1
           R == event.selection
           grid == createSpatialGrid(ScreenRows(cx))
       IN << [live |-> TRUE, ids |-> getPointsInBrush(grid, R[1], R[2], R[3], R[4]),
              indexX |-> i_original, indexY |-> j_original, rect |-> R] >>

\* "end" handler of brushX on the histogram below column i_visible.
brushXEnd(cx, i_visible, event) ==
  IF ignoresEvent(event) THEN <<>>
  ELSE IF i_visible \notin 1..Len(cx.vis) THEN <<>>
  ELSE IF event.selection = Null THEN << NoSelection >>
  ELSE LET x0 == event.selection[1]
           x1 == event.selection[2]
           r0 == padding \div 2
           r1 == size - padding \div 2
           minTimes == invertTimes(cx.stat, r0, r1, x0)
           maxTimes == invertTimes(cx.stat, r0, r1, x1)
           newSelectedIds == {cx.d.ids[k] : k \in {e \in 1..Len(cx.d.ids) :
                                /\ rowValue(cx.d.ids[e]) * (r1 - r0) >= minTimes
                                /\ rowValue(cx.d.ids[e]) * (r1 - r0) <= maxTimes}}
       IN << [live |-> TRUE, ids |-> newSelectedIds,
              indexX |-> cx.vis[i_visible] - 1, indexY |-> Len(cx.cols),
              rect |-> <<x0, padding \div 2, x1, size - padding \div 2>>] >>

\* "end" handler of brushY on the histogram right of column j_visible.  The y range runs
\* downwards, so (r1 - r0) is negative and the comparisons turn around.
brushYEnd(cx, j_visible, event) ==
  IF ignoresEvent(event) THEN <<>>
  ELSE IF j_visible \notin 1..Len(cx.vis) THEN <<>>
  ELSE IF event.selection = Null THEN << NoSelection >>
  ELSE LET y0 == event.selection[1]
           y1 == event.selection[2]
           r0 == size - padding \div 2
           r1 == padding \div 2
           minTimes == invertTimes(cx.stat, r0, r1, y1)
           maxTimes == invertTimes(cx.stat, r0, r1, y0)
           newSelectedIds == {cx.d.ids[k] : k \in {e \in 1..Len(cx.d.ids) :
                                /\ rowValue(cx.d.ids[e]) * (r1 - r0) <= minTimes
                                /\ rowValue(cx.d.ids[e]) * (r1 - r0) >= maxTimes}}
       IN << [live |-> TRUE, ids |-> newSelectedIds,
              indexX |-> Len(cx.cols), indexY |-> cx.vis[j_visible] - 1,
              rect |-> <<padding \div 2, y0, size - padding \div 2, y1>>] >>

RECURSIVE Flatten(_)
Flatten(ss) == IF Len(ss) = 0 THEN <<>> ELSE Head(ss) \o Flatten(Tail(ss))

\* The sync at the end of the layout effect: brush.move on every brushable cell and every
\* histogram cell (showHistograms is on), with the committed rectangle where the tags of
\* the committed selection name the cell and null elsewhere.  Each move dispatches an end
\* event without a source event to the cell's handler.
syncBrushes(m, cx) ==
  LET n == Len(cx.vis)
      cells == brushableCells(n)
      bs == cx.bs
      move(cell) == IF bs.live /\ bs.indexX = cx.vis[cell[1]] - 1
                               /\ bs.indexY = cx.vis[cell[2]] - 1
                      THEN bs.rect ELSE Null
      moveX(i) == IF bs.live /\ bs.indexX = cx.vis[i] - 1 /\ bs.indexY = Len(cx.cols)
                    THEN <<bs.rect[1], bs.rect[3]>> ELSE Null
      moveY(j) == IF bs.live /\ bs.indexX = Len(cx.cols) /\ bs.indexY = cx.vis[j] - 1
                    THEN <<bs.rect[2], bs.rect[4]>> ELSE Null
      calls == Flatten([k \in 1..Len(cells) |->
                          brushEnd(cx, cells[k], BrushEvent(FALSE, move(cells[k])))])
                 \o Flatten([i \in 1..n |-> brushXEnd(cx, i, BrushEvent(FALSE, moveX(i)))])
                 \o Flatten([j \in 1..n |-> brushYEnd(cx, j, BrushEvent(FALSE, moveY(j)))])
      moves == Cardinality({k \in 1..Len(cells) : move(cells[k]) # Null})
                 + Cardinality({i \in 1..n : moveX(i) # Null})
                 + Cardinality({j \in 1..n : moveY(j) # Null})
  IN [m EXCEPT !.sync = [calls |-> calls, moves |-> moves]]

\* The main effect of ScatterPlotMatrix (SVG decoration left out).
layoutEffect(m, cx) ==
  IF Len(cx.d.ids) = 0 THEN [m EXCEPT !.cleanup = 0]
  ELSE LET m1 == cancelPendingRenders(m)
           n == Len(cx.vis)
           st == layoutCells([m |-> m1, tasks |-> <<>>, active |-> {}], brushableCells(n), 1, cx)
           m2 == removeInactive(st.m, st.active)
       IN IF n = 0 THEN [m1 EXCEPT !.cleanup = 0]
          ELSE syncBrushes(
                 IF ~cx.dragging
                   THEN scheduleCanvasRendering(m2, st.tasks, Len(st.tasks), cx.d.id,
                                                cx.filteredData, cx.selectedIds, cx.mode)
                   ELSE [m2 EXCEPT !.emitted = Append(@, Event(0, "idle", 0, 0)),
                                   !.cleanup = 0],
                 cx)

\* A clear that empties the cache and forgets the key map.
cacheClearEffectKeepsKeys(m, last, cx) ==
  IF last # <<>> /\ last # cx.dataStateHash
    THEN [m EXCEPT !.cache = EmptyMap, !.uses = EmptyMap]
    ELSE m

\* Effect on [dataStateHash]: wholesale clear when the fingerprint changes.
cacheClearEffect(m, last, cx) ==
  IF last # <<>> /\ last # cx.dataStateHash
    THEN [m EXCEPT !.cache = EmptyMap, !.keys = EmptyMap, !.uses = EmptyMap]
    ELSE m

\* Effect on [data.length]: an empty dataset stands the scheduler down.
emptyDataEffect(m, cx) ==
  IF Len(cx.d.ids) = 0
    THEN [cancelPendingRenders(m) EXCEPT !.emitted = Append(@, Event(0, "idle", 0, 0))]
    ELSE m

\* Effects of one commit, in declaration order.
runEffects(m, last, cx) ==
  layoutEffect(emptyDataEffect(cacheClearEffect(m, last, cx), cx), cx)

\* Closures that nothing refers to any more, that have no frame callback queued and
\* that did nothing in this step are gone.
collect(m, inTick) ==
  [m EXCEPT !.runs = [r \in Slots |->
     IF @[r].used /\ (r \in {m.pending, m.cleanup, inTick} \/ @[r].frame
                        \/ \E e \in 1..Len(m.emitted) : m.emitted[e].src = r)
       THEN [@[r] EXCEPT !.idles =
               Min(2, @ + Cardinality({e \in 1..Len(m.emitted) :
                                         m.emitted[e].src = r /\ m.emitted[e].phase = "idle"})),
                         !.reported =
               LET own == {e \in 1..Len(m.emitted) : m.emitted[e].src = r}
               IN IF own = {} THEN @
                  ELSE m.emitted[CHOOSE e \in own : \A f \in own : f <= e].completed]
       ELSE NoRun]]

\* Write a refs record back to the variables.
Store(m, inTick) ==
  LET c == collect(m, inTick)
  IN /\ canvasElements' = c.elems
     /\ canvasPixels' = c.pixels
     /\ canvasRenderKey' = c.keys
     /\ renderCache' = c.cache
     /\ pendingRenderCancel' = c.pending
     /\ cancelRender' = c.cleanup
     /\ runs' = c.runs
     /\ emitted' = c.emitted
     /\ cacheUse' = c.uses
     /\ staleRead' = c.stale
     /\ brushSync' = c.sync
     /\ probe' = probe
     /\ fileStore' = fileStore
     /\ panel' = panel

(* ------------------------------- Init --------------------------------- *)
Init ==
  /\ data = [ids |-> <<>>, id |-> 0]
  /\ columns = <<>>
  /\ brushSelection = NoSelection
  /\ filterMode = "highlight"
  /\ dirty = FALSE
  /\ mounted = FALSE
  /\ canvasElements = {}
  /\ canvasPixels = EmptyMap
  /\ canvasRenderKey = EmptyMap
  /\ renderCache = EmptyMap
  /\ lastDataState = <<>>
  /\ isDragging = FALSE
  /\ dragIndex = 0
  /\ pendingRenderCancel = 0
  /\ cancelRender = 0
  /\ runs = [r \in Slots |-> NoRun]
  /\ tick = NoTick
  /\ emitted = <<>>
  /\ cacheUse = EmptyMap
  /\ staleRead = FALSE
  /\ brushSync = NoSync
  /\ probe = NoCall
  /\ fileStore = [entries |-> <<>>, nextId |-> 1, now |-> 0, calls |-> 0, last |-> NoCall]
  /\ panel = [columns |-> <<>>, columnFilter |-> <<>>, calls |-> 0, last |-> NoCall]
  /\ ops = 0
  /\ loads = 0

(* ------------------------- React commit of App ------------------------ *)
\* Re-render with the given state: cleanup of the previous layout effect, then the effects.
\* App renders the matrix only while it has columns.
Render(d, cols, bs, mode) ==
  IF Len(cols) = 0
    THEN /\ mounted' = FALSE
         /\ lastDataState' = <<>>
         /\ isDragging' = FALSE
         /\ dragIndex' = 0
         /\ LET m == callCancel(Refs, cancelRender)
            IN Store([FreshRefs EXCEPT !.runs = m.runs, !.emitted = m.emitted], 0)
    ELSE LET cx == Context(d, cols, bs, mode, mounted /\ isDragging)
             m0 == IF mounted THEN callCancel(Refs, cancelRender) ELSE FreshRefs
             last == IF mounted THEN lastDataState ELSE <<>>
         IN /\ mounted' = TRUE
            /\ lastDataState' = cx.dataStateHash
            /\ isDragging' = (mounted /\ isDragging)
            /\ dragIndex' = IF mounted THEN dragIndex ELSE 0
            /\ Store(runEffects(m0, last, cx), 0)

\* The commit of an update that did not come from a discrete input event: frames may
\* fire between the update and its effects.
Commit ==
  /\ dirty /\ tick.run = 0
  /\ HasFreeSlot(runs)
  /\ dirty' = FALSE
  /\ Render(data, columns, brushSelection, filterMode)
  /\ UNCHANGED << data, columns, brushSelection, filterMode, tick, ops, loads >>

(* ---------------------------- App handlers ---------------------------- *)
\* No handler runs inside processFrame, and one state update is rendered before the next.
Quiet == tick.run = 0 /\ ~dirty
\* Pointer and keyboard input reaches the page only outside a drag-and-drop operation.
UserReady == Quiet /\ mounted /\ dragIndex = 0 /\ HasFreeSlot(runs)

\* handleDataLoaded, the `complete` callback: rows get __id 0..n-1, columns start linear
\* and visible.  The update is rendered later (Commit).
handleDataLoaded(rowCount, names) ==
  /\ Quiet
  /\ loads' = loads + 1
  /\ IF rowCount = 0
       THEN /\ data' = [ids |-> <<>>, id |-> loads + 1]
            /\ columns' = <<>>
            /\ UNCHANGED brushSelection
       ELSE /\ data' = [ids |-> [i \in 1..rowCount |-> i - 1], id |-> loads + 1]
            /\ columns' = [c \in 1..Len(names) |->
                             [name |-> names[c], scale |-> "linear", visible |-> TRUE]]
            /\ brushSelection' = NoSelection
  /\ dirty' = TRUE
  /\ Store(Refs, 0)
  /\ UNCHANGED << filterMode, ops, mounted, lastDataState, isDragging, dragIndex, tick >>

\* handleColumnUpdate from the log-scale switch of one column (a click: rendered at once).
ToggleScale(i) ==
  /\ UserReady
  /\ i \in 1..Len(columns)
  /\ columns' = [columns EXCEPT ![i].scale = IF @ = "log" THEN "linear" ELSE "log"]
  /\ Render(data, columns', brushSelection, filterMode)
  /\ ops' = ops + 1
  /\ UNCHANGED << data, brushSelection, filterMode, dirty, tick, loads >>

\* handleColumnUpdate from the visible switch of one column.
ToggleVisible(i) ==
  /\ UserReady
  /\ i \in 1..Len(columns)
  /\ columns' = [columns EXCEPT ![i].visible = ~@]
  /\ Render(data, columns', brushSelection, filterMode)
  /\ ops' = ops + 1
  /\ UNCHANGED << data, brushSelection, filterMode, dirty, tick, loads >>

\* handleColumnFilterChange of App: every column becomes visible exactly if its name
\* contains the filter text, in one update.
ColumnFilterChange(filter) ==
  /\ UserReady
  /\ columns' = filterColumns2(Arr("input", columns), filter).items
  /\ Render(data, columns', brushSelection, filterMode)
  /\ ops' = ops + 1
  /\ UNCHANGED << data, brushSelection, filterMode, dirty, tick, loads >>

setFilterMode(mode) ==
  /\ UserReady
  /\ mode # filterMode
  /\ filterMode' = mode
  /\ Render(data, columns, brushSelection, mode)
  /\ ops' = ops + 1
  /\ UNCHANGED << data, columns, brushSelection, dirty, tick, loads >>

\* onBrush = setBrushSelection with the selection a gesture resolved to (pointer up).
onBrush(ids) ==
  /\ UserReady
  /\ Len(visibleIndexToOriginalIndex(columns)) >= 2
  /\ LET vis == visibleIndexToOriginalIndex(columns)
     IN brushSelection' = [live |-> TRUE, ids |-> ids, indexX |-> vis[1] - 1,
                           indexY |-> vis[2] - 1, rect |-> <<0, 0, size, size>>]
  /\ Render(data, columns, brushSelection', filterMode)
  /\ ops' = ops + 1
  /\ UNCHANGED << data, columns, filterMode, dirty, tick, loads >>

\* The scales of the handlers below are linear ones.
AllLinear == \A k \in 1..Len(columns) : columns[k].scale = "linear"

\* What setBrushSelection does with the handler's calls: the last argument is committed
\* and rendered; null over null changes nothing.
commitBrush(calls) ==
  /\ calls # <<>>
  /\ calls[Len(calls)].live \/ brushSelection.live
  /\ brushSelection' = calls[Len(calls)]
  /\ Render(data, columns, brushSelection', filterMode)
  /\ ops' = ops + 1
  /\ UNCHANGED << data, columns, filterMode, dirty, tick, loads >>

\* Pointer up after a drag over region in the brushable cell (Null: the drag left no
\* rectangle): d3 dispatches the end event with the pointer event as its source.
userBrushEnd(cell, region) ==
  /\ UserReady /\ AllLinear
  /\ \E k \in 1..Len(brushableCells(Len(visibleIndexToOriginalIndex(columns)))) :
       brushableCells(Len(visibleIndexToOriginalIndex(columns)))[k] = cell
  /\ commitBrush(brushEnd(Context(data, columns, brushSelection, filterMode, FALSE), cell,
                          BrushEvent(TRUE, region)))

\* Pointer up after a drag over range in the histogram below visible column i.
userBrushXEnd(i, range) ==
  /\ UserReady /\ AllLinear
  /\ i \in 1..Len(visibleIndexToOriginalIndex(columns))
  /\ commitBrush(brushXEnd(Context(data, columns, brushSelection, filterMode, FALSE), i,
                           BrushEvent(TRUE, range)))

\* Pointer up after a drag over range in the histogram right of visible column j.
userBrushYEnd(j, range) ==
  /\ UserReady /\ AllLinear
  /\ j \in 1..Len(visibleIndexToOriginalIndex(columns))
  /\ commitBrush(brushYEnd(Context(data, columns, brushSelection, filterMode, FALSE), j,
                           BrushEvent(TRUE, range)))

\* Clear button or Escape: setBrushSelection(null).
clearSelection ==
  /\ UserReady
  /\ brushSelection.live
  /\ brushSelection' = NoSelection
  /\ Render(data, columns, brushSelection', filterMode)
  /\ ops' = ops + 1
  /\ UNCHANGED << data, columns, filterMode, dirty, tick, loads >>

reorderColumns(cols, dragIdx, hoverIdx) ==
  [cols EXCEPT ![dragIdx] = cols[hoverIdx], ![hoverIdx] = cols[dragIdx]]

\* A reorder that swaps inside the array it was handed and returns that array.
reorderColumnsInPlace(heap, dragIdx, hoverIdx) ==
  [heap |-> [heap EXCEPT !.input = reorderColumns(@, dragIdx, hoverIdx)], result |-> "input"]

\* One call of reorderColumns on the arrays it touches: heap.input is the argument,
\* heap.newColumns the copy the call makes, swaps in and returns.
reorderColumnsCall(heap, dragIdx, hoverIdx) ==
  LET copied == [heap EXCEPT !.newColumns = heap.input]
  IN [heap |-> [copied EXCEPT !.newColumns = reorderColumns(@, dragIdx, hoverIdx)],
      result |-> "newColumns"]

\* handleDragStart that sets the flag but leaves the in-flight run alone.
handleDragStartNoCancel(i) ==
  /\ tick.run = 0 /\ ~dirty /\ mounted /\ dragIndex = 0
  /\ i \in 1..Len(columns) /\ columns[i].visible
  /\ isDragging' = TRUE
  /\ dragIndex' = i
  /\ Store([Refs EXCEPT !.emitted = Append(@, Event(0, "idle", 0, 0))], 0)
  /\ ops' = ops + 1
  /\ UNCHANGED << data, columns, brushSelection, filterMode, dirty, mounted, lastDataState,
                  tick, loads >>

\* useDrag item(): handleDragStart.
handleDragStart(i) ==
  /\ UserReady
  /\ i \in 1..Len(columns) /\ columns[i].visible
  /\ isDragging' = TRUE
  /\ dragIndex' = i
  /\ LET m == cancelPendingRenders(Refs)
     IN Store([m EXCEPT !.emitted = Append(@, Event(0, "idle", 0, 0))], 0)
  /\ ops' = ops + 1
  /\ UNCHANGED << data, columns, brushSelection, filterMode, dirty, mounted, lastDataState,
                  tick, loads >>

\* useDrop drop(): onColumnReorder when dropped on another header.  The re-render may
\* come before or after the drag's end callback.
handleDrop(hoverIndex) ==
  /\ Quiet /\ mounted
  /\ dragIndex > 0
  /\ dragIndex <= Len(columns) /\ hoverIndex \in 1..Len(columns)
  /\ columns[hoverIndex].visible
  /\ dragIndex # hoverIndex
  /\ columns' = reorderColumns(columns, dragIndex, hoverIndex)
  /\ dragIndex' = -1
  /\ dirty' = TRUE
  /\ Store(Refs, 0)
  /\ UNCHANGED << data, brushSelection, filterMode, mounted, lastDataState, isDragging,
                  tick, ops, loads >>

\* useDrag end(): handleDragEnd.
handleDragEnd ==
  /\ tick.run = 0 /\ mounted
  /\ dragIndex # 0
  /\ isDragging' = FALSE
  /\ dragIndex' = 0
  /\ Store(Refs, 0)
  /\ UNCHANGED << data, columns, brushSelection, filterMode, dirty, mounted, lastDataState,
                  tick, ops, loads >>

(* ----------------------------- processFrame --------------------------- *)
\* A queued animation frame fires: processFrame starts, or returns at once when cancelled.
\* cost is the time one task takes during this frame.
FrameFires(r, cost) ==
  /\ tick.run = 0
  /\ runs[r].used /\ runs[r].frame
  /\ tick' = IF runs[r].cancelled THEN NoTick
             ELSE [NoTick EXCEPT !.run = r, !.cost = cost]
  /\ Store([Refs EXCEPT !.runs[r].frame = FALSE],
           IF runs[r].cancelled THEN 0 ELSE r)
  /\ UNCHANGED << data, columns, brushSelection, filterMode, dirty, mounted, lastDataState,
                  isDragging, dragIndex, ops, loads >>

\* A loop that only looks at the queue and never yields for the frame budget.
loopContinuesNoBudget(run, t) ==
  run.completed < Len(run.tasks)

\* The while condition of processFrame.
loopContinues(run, t) ==
  run.completed < Len(run.tasks)
    /\ (t.processed < FrameTaskQuota \/ t.elapsed < FrameBudgetMs)

\* A put that never evicts.
cachePutUnbounded(entries, key, image) ==
  LET at == CacheIndex(entries, key)
  IN IF at = {} THEN Append(entries, [key |-> key, image |-> image])
     ELSE [e \in 1..Len(entries) |->
             IF e \in at THEN [key |-> key, image |-> image] ELSE entries[e]]

\* Map.set followed by the size check: a new key is appended, an existing key keeps its place.
cachePut(entries, key, image) ==
  LET at == CacheIndex(entries, key)
      put == IF at = {} THEN Append(entries, [key |-> key, image |-> image])
             ELSE [e \in 1..Len(entries) |->
                     IF e \in at THEN [key |-> key, image |-> image] ELSE entries[e]]
  IN IF Len(put) > MAX_CACHE_ENTRIES_PER_CANVAS THEN Tail(put) ELSE put

\* A guard that only looks at the size of the canvas.
cacheableAnySelection(selected) ==
  size * size <= MAX_CACHE_PIXELS_PER_CANVAS

\* The guards around the cache put of processFrame.
cacheable(selected) ==
  Cardinality(selected) = 0 /\ size * size <= MAX_CACHE_PIXELS_PER_CANVAS

\* An iteration without the try/catch: the exception leaves the loop after the task was
\* drawn and its key recorded, before the count goes up.
executeTaskUncaught(m, r, threw) ==
  LET run == m.runs[r]
      task == run.tasks[run.completed + 1]
      image == renderPointsToCanvas(run.dat, run.rows, task, run.selected, run.mode)
      m1 == [m EXCEPT !.pixels = IF task.canvasKey \in DOMAIN @
                                   THEN MapSet(@, task.canvasKey, image) ELSE @,
                      !.keys = MapSet(@, task.canvasKey, task.renderKey)]
      put == cachePut(MapGet(m1.cache, task.canvasKey, <<>>), task.renderKey, image)
      m2 == IF cacheable(run.selected)
              THEN [m1 EXCEPT !.cache = MapSet(@, task.canvasKey, put),
                              !.uses = MapSet(@, task.canvasKey,
                                         Used(MapGet(@, task.canvasKey, NoUse), task.renderKey,
                                              CacheKeys(put)))]
              ELSE m1
  IN IF threw THEN [m1 EXCEPT !.runs[r].failed = TRUE]
     ELSE [m2 EXCEPT !.runs[r].completed = @ + 1,
                     !.runs[r].executed[run.completed + 1] = @ + 1]

\* One iteration of the while loop: render a task, record its key, cache the raster.
\* threw: getImageData throws inside the try block, whose catch ignores the error.
executeTaskWith(m, r, threw) ==
  LET run == m.runs[r]
      task == run.tasks[run.completed + 1]
      image == renderPointsToCanvas(run.dat, run.rows, task, run.selected, run.mode)
      m1 == [m EXCEPT !.pixels = IF task.canvasKey \in DOMAIN @
                                   THEN MapSet(@, task.canvasKey, image) ELSE @,
                      !.keys = MapSet(@, task.canvasKey, task.renderKey)]
      put == cachePut(MapGet(m1.cache, task.canvasKey, <<>>), task.renderKey, image)
      m2 == IF cacheable(run.selected) /\ ~threw
              THEN [m1 EXCEPT !.cache = MapSet(@, task.canvasKey, put),
                              !.uses = MapSet(@, task.canvasKey,
                                         Used(MapGet(@, task.canvasKey, NoUse), task.renderKey,
                                              CacheKeys(put)))]
              ELSE m1
  IN [m2 EXCEPT !.runs[r].completed = @ + 1,
                !.runs[r].executed[run.completed + 1] = @ + 1,
                !.runs[r].failed = @ \/ threw]

executeTask(m, r) == executeTaskWith(m, r, FALSE)

TaskStep ==
  /\ tick.run # 0
  /\ loopContinues(runs[tick.run], tick)
  /\ tick' = [tick EXCEPT !.processed = @ + 1, !.elapsed = Min(ClockCap, @ + tick.cost),
                          !.started = TRUE, !.atProcessed = tick.processed,
                          !.atElapsed = tick.elapsed]
  /\ Store(executeTask(Refs, tick.run), tick.run)
  /\ UNCHANGED << data, columns, brushSelection, filterMode, dirty, mounted, lastDataState,
                  isDragging, dragIndex, ops, loads >>

\* An iteration in which reading the raster back from the canvas fails.
TaskStepThrows ==
  /\ tick.run # 0
  /\ loopContinues(runs[tick.run], tick)
  /\ cacheable(runs[tick.run].selected)
  /\ tick' = [tick EXCEPT !.processed = @ + 1, !.elapsed = Min(ClockCap, @ + tick.cost),
                          !.started = TRUE, !.atProcessed = tick.processed,
                          !.atElapsed = tick.elapsed]
  /\ Store(executeTaskWith(Refs, tick.run, TRUE), tick.run)
  /\ UNCHANGED << data, columns, brushSelection, filterMode, dirty, mounted, lastDataState,
                  isDragging, dragIndex, ops, loads >>

\* An end of frame that reports progress and never asks for another frame.
frameEndWithoutNextFrame(m, r) ==
  LET run == m.runs[r]
      m1 == [m EXCEPT !.emitted = Append(@, Event(r, "rendering", run.totalCount,
                                                    Min(run.completed, run.totalCount)))]
  IN IF run.completed < Len(run.tasks)
       THEN m1
       ELSE [m1 EXCEPT !.pending = 0,
                       !.emitted = Append(@, Event(r, "idle", run.totalCount, run.totalCount))]

\* An end of frame that reports nothing until the run is done.
frameEndWithoutProgress(m, r) ==
  LET run == m.runs[r]
  IN IF run.completed < Len(run.tasks)
       THEN [m EXCEPT !.runs[r].frame = TRUE]
       ELSE [m EXCEPT !.pending = 0,
                      !.emitted = Append(@, Event(r, "idle", run.totalCount, run.totalCount))]

\* After the loop: progress event, then the next frame or the terminal idle event.
frameEnd(m, r) ==
  LET run == m.runs[r]
      m1 == [m EXCEPT !.emitted = Append(@, Event(r, "rendering", run.totalCount,
                                                    Min(run.completed, run.totalCount)))]
  IN IF run.completed < Len(run.tasks)
       THEN [m1 EXCEPT !.runs[r].frame = TRUE]
       ELSE [m1 EXCEPT !.pending = 0,
                       !.emitted = Append(@, Event(r, "idle", run.totalCount, run.totalCount))]

FrameEnds ==
  /\ tick.run # 0
  /\ ~loopContinues(runs[tick.run], tick)
  /\ tick' = NoTick
  /\ Store(frameEnd(Refs, tick.run), 0)
  /\ UNCHANGED << data, columns, brushSelection, filterMode, dirty, mounted, lastDataState,
                  isDragging, dragIndex, ops, loads >>

(* ---------------------------- specifications -------------------------- *)
\* Scheduler: runs of up to six tasks, superseded, cancelled and suspended by drags.
SchedNext ==
  \/ loads < MaxLoads /\ \E n \in {0, MaxRows}, names \in SchedColumnLists :
                          handleDataLoaded(n, names)
  \/ ops < MaxOps /\ ToggleScale(1)
  \/ ops < MaxOps /\ ToggleVisible(3)
  \/ ops < MaxOps /\ \E mode \in FilterModes : setFilterMode(mode)
  \/ ops < MaxOps /\ \E ids \in {{}, {0}} : onBrush(ids)
  \/ ops < MaxOps /\ \E i \in 1..2 : handleDragStart(i)
  \/ \E h \in 1..2 : handleDrop(h)
  \/ handleDragEnd
  \/ Commit
  \/ \E r \in Slots, cost \in Durations : FrameFires(r, cost)
  \/ TaskStep
  \/ FrameEnds

Spec == Init /\ [][SchedNext]_vars

\* Reloads: files of zero to MaxRows rows replace the dataset, between and during renders.
DataNext ==
  \/ loads < MaxDataLoads /\ \E n \in 0..MaxRows, names \in CacheColumnLists :
                              handleDataLoaded(n, names)
  \/ ops < MaxOps /\ ToggleScale(1)
  \/ ops < MaxOps /\ \E mode \in FilterModes : setFilterMode(mode)
  \/ Commit
  \/ \E r \in Slots, cost \in Durations : FrameFires(r, cost)
  \/ TaskStep
  \/ FrameEnds

SpecData == Init /\ [][DataNext]_vars

\* Hiding and showing: two columns, each of which the user may hide and show again.
\* Filter texts: show all, show only a, show none.
VisibilityFilters == { <<>>, <<"a">>, <<"b", "b">> }

VisibilityNext ==
  \/ loads < MaxLoads /\ \E names \in CacheColumnLists : handleDataLoaded(MaxRows, names)
  \/ ops < MaxVisibilityOps /\ \E i \in 1..2 : ToggleVisible(i)
  \/ ops < MaxVisibilityOps /\ \E filter \in VisibilityFilters : ColumnFilterChange(filter)
  \/ Commit
  \/ \E r \in Slots, cost \in Durations : FrameFires(r, cost)
  \/ TaskStep
  \/ FrameEnds

SpecVisibility == Init /\ [][VisibilityNext]_vars

\* Raster failures: renders of two columns in which any read-back of a raster may fail.
FailNext ==
  \/ loads < MaxLoads /\ \E names \in CacheColumnLists : handleDataLoaded(MaxRows, names)
  \/ ops < MaxOps /\ \E i \in 1..2 : ToggleScale(i)
  \/ Commit
  \/ \E r \in Slots, cost \in Durations : FrameFires(r, cost)
  \/ TaskStep
  \/ TaskStepThrows
  \/ FrameEnds

SpecFail == Init /\ [][FailNext]_vars

\* The scheduler under fair frames, on three columns (six cells to draw, more than one
\* frame): a frame that has been requested and not cancelled fires, a loop that may go
\* on goes on, and a loop that is over reports.
LiveNext ==
  \/ loads < MaxLoads /\ \E names \in LiveColumnLists : handleDataLoaded(MaxRows, names)
  \/ ops < MaxLiveOps /\ ToggleScale(1)
  \/ Commit
  \/ \E r \in Slots, cost \in Durations : FrameFires(r, cost)
  \/ TaskStep
  \/ FrameEnds
FairFrames ==
  /\ \A r \in Slots : WF_vars(\E cost \in Durations : FrameFires(r, cost))
  /\ WF_vars(TaskStep)
  /\ WF_vars(FrameEnds)
SpecLive == Init /\ [][LiveNext]_vars /\ FairFrames

\* Header drags under fair frames and fair re-renders: a state update is rendered, a
\* requested frame fires; whether and when the user drags, drops and lets go is free.
DragNext ==
  \/ loads < MaxLoads /\ \E names \in LiveColumnLists : handleDataLoaded(MaxRows, names)
  \/ ops < MaxLiveOps /\ \E i \in 1..2 : handleDragStart(i)
  \/ \E h \in 1..2 : handleDrop(h)
  \/ handleDragEnd
  \/ Commit
  \/ \E r \in Slots, cost \in Durations : FrameFires(r, cost)
  \/ TaskStep
  \/ FrameEnds
\* React renders a pending state update: Commit is the only step that clears dirty, and
\* it can be taken whenever an update is pending outside processFrame.
CommitStep == dirty /\ tick.run = 0 /\ HasFreeSlot(runs) /\ dirty' = FALSE
FairRenders == FairFrames /\ WF_dirty(CommitStep)
SpecDrag == Init /\ [][DragNext]_vars /\ FairRenders

\* Render cache: two columns, and a user who changes scales, filter mode and selection and
\* lets each render finish (every frame has time for the whole queue).
CacheReady == pendingRenderCancel = 0
CacheNext ==
  \/ loads < MaxLoads /\ CacheReady /\ \E names \in CacheColumnLists :
                                          handleDataLoaded(MaxRows, names)
  \/ ops < MaxCacheOps /\ CacheReady /\ \E i \in 1..2 : ToggleScale(i)
  \/ ops < MaxCacheOps /\ CacheReady /\ \E mode \in FilterModes : setFilterMode(mode)
  \/ Commit
  \/ \E r \in Slots : FrameFires(r, 0)
  \/ TaskStep
  \/ FrameEnds

SpecCache == Init /\ [][CacheNext]_vars

\* Brushing: three columns, one of which the user may hide, and a user who drags in the
\* cells and the histograms, switches the filter mode, clears, and lets each render finish.
BrushColumnLists == { << <<"a">>, <<"b">>, <<"c">> >> }
GestureCells == { <<1, 2>>, <<2, 1>> }
GestureRects == { Null, <<0, 0, size, size>>, <<75, 0, size, 75>> }
GestureRanges == { Null, <<0, size>>, <<75, size>> }
BrushNext ==
  \/ loads = 0 /\ \E names \in BrushColumnLists : handleDataLoaded(MaxRows, names)
  \/ ops < MaxBrushOps /\ CacheReady /\ ToggleVisible(1)
  \/ ops < MaxBrushOps /\ CacheReady /\ \E mode \in FilterModes : setFilterMode(mode)
  \/ ops < MaxBrushOps /\ CacheReady /\ clearSelection
  \/ ops < MaxBrushOps /\ CacheReady /\ \E cell \in GestureCells, region \in GestureRects :
                                          userBrushEnd(cell, region)
  \/ ops < MaxBrushOps /\ CacheReady /\ \E i \in 1..2, range \in GestureRanges :
                                          userBrushXEnd(i, range)
  \/ ops < MaxBrushOps /\ CacheReady /\ \E j \in 1..2, range \in GestureRanges :
                                          userBrushYEnd(j, range)
  \/ Commit
  \/ \E r \in Slots : FrameFires(r, 0)
  \/ TaskStep
  \/ FrameEnds

SpecBrush == Init /\ [][BrushNext]_vars

\* Utility functions called on their own.  The functions keep no state, so a behaviour
\* makes one call.
\* Rows a grid may be built from: screen positions on the edges of the cell square, inside
\* it and outside it, and a row with a non-finite value.
GridRows == { GridRow(0, TRUE, 0, 0), GridRow(1, TRUE, 75, 142), GridRow(2, TRUE, 150, 75),
              GridRow(3, FALSE, 75, 75), GridRow(4, TRUE, 8, 150), GridRow(5, TRUE, 157, 0 - 7) }
BrushRects == { <<0, 0, 150, 150>>, <<0, 0, 75, 75>>, <<8, 8, 142, 142>>, <<75, 75, 150, 150>> }
RECURSIVE RowsInOrder(_)
RowsInOrder(S) ==
  IF S = {} THEN <<>>
  ELSE LET lo == CHOOSE a \in S : \A b \in S : a.id <= b.id
       IN <<lo>> \o RowsInOrder(S \ {lo})

CallGetPointsInBrush(S, R) ==
  /\ probe = NoCall
  /\ probe' = [fn |-> "getPointsInBrush", rows |-> S, rect |-> R,
               grid |-> createSpatialGrid(RowsInOrder(S)),
               out |-> getPointsInBrush(createSpatialGrid(RowsInOrder(S)),
                                        R[1], R[2], R[3], R[4])]
  /\ UNCHANGED programVars

\* Ids a selection may hold, and the orders in which up to MaxSelected of them enter a Set.
HashIds == {0, 1, 2, 31, 62}
Members(order) == {order[k] : k \in 1..Len(order)}
IdOrders ==
  UNION { { o \in [1..n -> HashIds] : \A i, j \in 1..n : i # j => o[i] # o[j] } :
          n \in 0..MaxSelected }

CallHash(A, B) ==
  /\ probe = NoCall
  /\ probe' = [fn |-> "computeSelectedStateHash", a |-> A, b |-> B,
               outA |-> selectedStateHash(A), outB |-> selectedStateHash(B)]
  /\ UNCHANGED programVars

HashNext == \E A \in IdOrders, B \in IdOrders : CallHash(A, B)
SpecHash == Init /\ [][HashNext]_vars

GridNext == \E S \in SUBSET GridRows, R \in BrushRects : CallGetPointsInBrush(S, R)
SpecGrid == Init /\ [][GridNext]_vars

\* Column lists the column functions may be handed: up to three columns with distinct
\* names in any order, each visible or hidden; and the filter texts a user may type.
ColumnNames == { <<"a">>, <<"b">>, <<"a", "a">> }
FilterChars == {" ", "a", "A", "b"}
MaxFilterLen == 2
ColumnListsOf(n) ==
  { [k \in 1..n |-> [name |-> names[k], scale |-> IF names[k] = <<"b">> THEN "log" ELSE "linear",
                     visible |-> shown[k]]] :
      names \in {o \in [1..n -> ColumnNames] : \A i, j \in 1..n : i # j => o[i] # o[j]},
      shown \in [1..n -> BOOLEAN] }
ColumnLists == UNION { ColumnListsOf(n) : n \in 0..Cardinality(ColumnNames) }
FilterTexts == UNION { [1..n -> FilterChars] : n \in 0..MaxFilterLen }

CallFilterColumns(cols, filter) ==
  /\ probe = NoCall
  /\ probe' = [fn |-> "filterColumns", cols |-> cols, filter |-> filter,
               out |-> filterColumns(Arr("input", cols), filter),
               out2 |-> filterColumns2(Arr("input", cols), filter)]
  /\ UNCHANGED programVars

CallMapVisibleColumns(cols) ==
  /\ probe = NoCall
  /\ probe' = [fn |-> "mapVisibleColumns", cols |-> cols, out |-> mapVisibleColumns(cols)]
  /\ UNCHANGED programVars

\* reorderColumns(cols, i, j), and reorderColumns(result, j, i) on what it returned.
CallReorderColumns(cols, i, j) ==
  /\ probe = NoCall
  /\ LET first == reorderColumnsCall([input |-> cols, newColumns |-> <<>>], i, j)
         out == first.heap[first.result]
         second == reorderColumnsCall([input |-> out, newColumns |-> <<>>], j, i)
     IN probe' = [fn |-> "reorderColumns", cols |-> cols, i |-> i, j |-> j, out |-> out,
                  fresh |-> first.result # "input", after |-> first.heap.input,
                  back |-> second.heap[second.result]]
  /\ UNCHANGED programVars

ColumnsNext ==
  \/ \E cols \in ColumnLists, filter \in FilterTexts : CallFilterColumns(cols, filter)
  \/ \E cols \in ColumnLists : CallMapVisibleColumns(cols)
  \/ \E cols \in ColumnLists : \E i, j \in 1..Len(cols) : CallReorderColumns(cols, i, j)
SpecColumns == Init /\ [][ColumnsNext]_vars

(* ----------------------- App with derived displayColumns --------------- *)
\* The App that keeps the base columns in state and derives what it hands to the matrix
\* and the table: displayColumns = filterColumns(columns, columnFilter).
displayColumns(pan) == filterColumns(Arr("input", pan.columns), pan.columnFilter).items

\* The columns the matrix plots: the visible ones of its columns prop, in order.
plottedColumns(pan) == mapVisibleColumns(displayColumns(pan)).visibleColumns

\* Header rows of the files loaded here and their numbers of data rows.
PanelColumnLists == { << <<"b">>, <<"a">>, <<"a", "a">> >>, << <<"a">>, <<"b">> >> }
PanelRowCounts == {2, 7500, 20000}

\* applyParsedData: all numeric columns visible, except that a large load hides the
\* columns from maxCols on; the filter is reset.
applyParsedData(pan, names, rows) ==
  LET cols == Len(names)
      maxCols == Max(1, FloorDiv(MAX_INITIAL_RENDER_POINTS, rows))
      numericColumns == [k \in 1..cols |->
                           [name |-> names[k], scale |-> "linear",
                            visible |-> ~(rows * cols > MAX_INITIAL_RENDER_POINTS /\ k > maxCols)]]
  IN [pan EXCEPT !.columns = numericColumns, !.columnFilter = <<>>]

\* handleColumnUpdate as the eye button of the control panel calls it: the panel lists the
\* base columns and sends the index in that list.
toggleVisible(pan, i) == [pan EXCEPT !.columns[i].visible = ~@]

\* handleColumnFilterChange: only the filter string is set.
handleColumnFilterChange(pan, filter) == [pan EXCEPT !.columnFilter = filter]

\* handleColumnReorder: reorderColumns on the base columns with the indices it is sent.
handleColumnReorder(pan, dragIdx, hoverIdx) ==
  [pan EXCEPT !.columns = reorderColumns(@, dragIdx, hoverIdx)]

\* The index a header sends: the matrix renders one header per visible column of its
\* columns prop and gives it that column's index in the prop.
headerIndex(pan, visibleIndex) ==
  MapGet(mapVisibleColumns(displayColumns(pan)).visibleToOriginal, visibleIndex, 0)

PanelLoad(names, rows) ==
  /\ panel.calls < MaxPanelOps
  /\ panel' = [applyParsedData(panel, names, rows) EXCEPT
                 !.calls = @ + 1, !.last = [fn |-> "applyParsedData"]]
  /\ UNCHANGED matrixVars

PanelToggle(i) ==
  /\ panel.calls < MaxPanelOps
  /\ i \in 1..Len(panel.columns)
  /\ panel' = [toggleVisible(panel, i) EXCEPT
                 !.calls = @ + 1, !.last = [fn |-> "handleColumnUpdate", index |-> i]]
  /\ UNCHANGED matrixVars

PanelFilter(filter) ==
  /\ panel.calls < MaxPanelOps
  /\ panel.columns # <<>>
  /\ filter # panel.columnFilter
  /\ panel' = [handleColumnFilterChange(panel, filter) EXCEPT
                 !.calls = @ + 1, !.last = [fn |-> "handleColumnFilterChange"]]
  /\ UNCHANGED matrixVars

\* The header of the visible column number dragged is dropped on that of number hovered.
PanelDrop(dragged, hovered) ==
  /\ panel.calls < MaxPanelOps
  /\ dragged \in 1..Len(plottedColumns(panel))
  /\ hovered \in 1..Len(plottedColumns(panel))
  /\ LET dragIdx == headerIndex(panel, dragged)
         hoverIdx == headerIndex(panel, hovered)
         dropped == IF dragIdx # hoverIdx
                      THEN handleColumnReorder(panel, dragIdx, hoverIdx) ELSE panel
     IN panel' = [dropped EXCEPT
                    !.calls = @ + 1,
                    !.last = [fn |-> "drop", before |-> panel.columns,
                              drag |-> plottedColumns(panel)[dragged].name,
                              hover |-> plottedColumns(panel)[hovered].name]]
  /\ UNCHANGED matrixVars

PanelNext ==
  \/ \E names \in PanelColumnLists, rows \in PanelRowCounts : PanelLoad(names, rows)
  \/ \E i \in 1..Cardinality(ColumnNames) : PanelToggle(i)
  \/ \E filter \in FilterTexts : PanelFilter(filter)
  \/ \E dragged, hovered \in 1..Cardinality(ColumnNames) : PanelDrop(dragged, hovered)
SpecPanel == Init /\ [][PanelNext]_vars

(* --------------------------- detectColumnGroups ------------------------ *)
\* Column names are texts here: sequences of characters.
MaxGroupColumns == 3
isAlphabetic(c) == c \in {"a", "A", "x"}

\* name.match(/[a-zA-Z]+/g) || []: the maximal runs of letters, in order of appearance.
RECURSIVE matchLetters(_, _, _)
matchLetters(name, k, run) ==
  IF k > Len(name) THEN (IF run = <<>> THEN <<>> ELSE <<run>>)
  ELSE IF isAlphabetic(name[k]) THEN matchLetters(name, k + 1, Append(run, name[k]))
  ELSE (IF run = <<>> THEN <<>> ELSE <<run>>) \o matchLetters(name, k + 1, <<>>)

\* tokenToColumns.get(lowerToken).add(name) on a Map of Sets, both in insertion order.
addToToken(byToken, lowerToken, name) ==
  LET at == {e \in 1..Len(byToken) : byToken[e].token = lowerToken}
  IN IF at = {} THEN Append(byToken, [token |-> lowerToken, cols |-> <<name>>])
     ELSE [e \in 1..Len(byToken) |->
             IF e \in at /\ \A c \in 1..Len(byToken[e].cols) : byToken[e].cols[c] # name
               THEN [byToken[e] EXCEPT !.cols = Append(@, name)]
               ELSE byToken[e]]

RECURSIVE addTokens(_, _, _)
addTokens(byToken, tokens, name) ==
  IF tokens = <<>> THEN byToken
  ELSE addTokens(addToToken(byToken, toLowerCase(Head(tokens)), name), Tail(tokens), name)

RECURSIVE tokenToColumns(_, _)
tokenToColumns(byToken, columnNames) ==
  IF columnNames = <<>> THEN byToken
  ELSE tokenToColumns(addTokens(byToken, matchLetters(Head(columnNames), 1, <<>>),
                                Head(columnNames)),
                      Tail(columnNames))

\* [...groups.entries()].sort((a, b) => b[1].length - a[1].length): a stable sort.
RECURSIVE sortBySize(_)
sortBySize(entries) ==
  IF entries = <<>> THEN <<>>
  ELSE LET first == CHOOSE k \in 1..Len(entries) :
                      \A j \in 1..Len(entries) :
                         \/ Len(entries[k].cols) > Len(entries[j].cols)
                         \/ Len(entries[k].cols) = Len(entries[j].cols) /\ k <= j
       IN <<entries[first]>>
            \o sortBySize([j \in 1..(Len(entries) - 1) |->
                             IF j < first THEN entries[j] ELSE entries[j + 1]])

\* detectColumnGroups: the Map it returns, as the sequence of its entries.
detectColumnGroups(columnNames) ==
  LET totalCols == Len(columnNames)
      groups == SelectSeq(tokenToColumns(<<>>, columnNames),
                          LAMBDA g : Len(g.cols) >= 2 /\ Len(g.cols) < totalCols)
  IN IF totalCols = 0 THEN <<>> ELSE sortBySize(groups)

\* Names the function may be handed, in lists of up to MaxGroupColumns; two columns may
\* carry the same name (the name field of the control panel is free text).
GroupNames == { <<"a">>, <<"A", "_", "x">>, <<"x">>, <<"a", "x">>, <<"x", "_", "a">> }
GroupNameLists == UNION { [1..n -> GroupNames] : n \in 0..MaxGroupColumns }

CallDetectColumnGroups(columnNames) ==
  /\ probe = NoCall
  /\ probe' = [fn |-> "detectColumnGroups", names |-> columnNames,
               out |-> detectColumnGroups(columnNames)]
  /\ UNCHANGED programVars

GroupsNext == \E columnNames \in GroupNameLists : CallDetectColumnGroups(columnNames)
SpecGroups == Init /\ [][GroupsNext]_vars

(* ----------------------------- file history ---------------------------- *)
\* The object store holds its entries in key order; getAll returns them in that order.
\* A text is known by its name; only its length matters to saveFile.
FileNames == 1..(MAX_ENTRIES + 1)
FileTexts == {"a", "b", "big"}
TextLength(csvText) == IF csvText = "big" THEN MAX_FILE_SIZE + 1 ELSE 1

\* [...allEntries].sort((a, b) => a.timestamp - b.timestamp): a stable sort.
RECURSIVE sortByTimestamp(_)
sortByTimestamp(entries) ==
  IF entries = <<>> THEN <<>>
  ELSE LET first == CHOOSE k \in 1..Len(entries) :
                      \A j \in 1..Len(entries) :
                         \/ entries[k].timestamp < entries[j].timestamp
                         \/ entries[k].timestamp = entries[j].timestamp /\ k <= j
       IN <<entries[first]>>
            \o sortByTimestamp([j \in 1..(Len(entries) - 1) |->
                                  IF j < first THEN entries[j] ELSE entries[j + 1]])

\* saveFile without the eviction loop.
saveFileKeepsAll(store, filename, csvText, now) ==
  IF TextLength(csvText) > MAX_FILE_SIZE THEN store
  ELSE LET allEntries == store.entries
           deleted == {allEntries[k].id : k \in {e \in 1..Len(allEntries) :
                                                   allEntries[e].filename = filename}}
       IN [store EXCEPT
             !.entries = Append(SelectSeq(allEntries, LAMBDA e : e.id \notin deleted),
                                [id |-> store.nextId, filename |-> filename,
                                 timestamp |-> now, csvText |-> csvText]),
             !.nextId = @ + 1]

\* saveFile, one readwrite transaction: drop the oldest entries while there are
\* MAX_ENTRIES or more, drop the entries with this filename, add the new entry.
saveFile(store, filename, csvText, now) ==
  IF TextLength(csvText) > MAX_FILE_SIZE THEN store
  ELSE LET allEntries == store.entries
           sorted == sortByTimestamp(allEntries)
           shifted == IF Len(sorted) >= MAX_ENTRIES THEN Len(sorted) - MAX_ENTRIES + 1 ELSE 0
           deleted == {sorted[k].id : k \in 1..shifted}
                        \cup {allEntries[k].id : k \in {e \in 1..Len(allEntries) :
                                                         allEntries[e].filename = filename}}
       IN [store EXCEPT
             !.entries = Append(SelectSeq(allEntries, LAMBDA e : e.id \notin deleted),
                                [id |-> store.nextId, filename |-> filename,
                                 timestamp |-> now, csvText |-> csvText]),
             !.nextId = @ + 1]

\* deleteEntry: delete by key; a key that is not there deletes nothing.
deleteEntry(store, id) ==
  [store EXCEPT !.entries = SelectSeq(@, LAMBDA e : e.id # id)]

\* The filenames in the store, and the name a file new to the history is given here.
StoredNames(store) == {store.entries[k].filename : k \in 1..Len(store.entries)}
NewName(store) == CHOOSE n \in FileNames \ StoredNames(store) :
                    \A m \in FileNames \ StoredNames(store) : n <= m

\* A call of saveFile; the clock has moved on by `passed` ms since the last call.  Calls
\* within one millisecond are explored as long as no two stored entries share a timestamp.
SaveFile(filename, csvText, passed) ==
  /\ fileStore.calls < MaxHistoryCalls
  /\ filename \in StoredNames(fileStore) \cup {NewName(fileStore)}
  /\ passed = 0 => \A j, k \in 1..Len(fileStore.entries) :
                      j # k => fileStore.entries[j].timestamp # fileStore.entries[k].timestamp
  /\ LET now == fileStore.now + passed
     IN fileStore' = [saveFile(fileStore, filename, csvText, now) EXCEPT
                        !.now = now, !.calls = @ + 1,
                        !.last = [fn |-> "saveFile", filename |-> filename,
                                  csvText |-> csvText]]
  /\ UNCHANGED pageVars

\* A call of deleteEntry, with a key of the store or with one that is not there.
DeleteEntry(id) ==
  /\ fileStore.calls < MaxHistoryCalls
  /\ id \in {fileStore.entries[k].id : k \in 1..Len(fileStore.entries)} \cup {fileStore.nextId}
  /\ fileStore' = [deleteEntry(fileStore, id) EXCEPT
                     !.calls = @ + 1, !.last = [fn |-> "deleteEntry", id |-> id]]
  /\ UNCHANGED pageVars

HistoryNext ==
  \/ \E filename \in FileNames, csvText \in FileTexts, passed \in {0, 1} :
        SaveFile(filename, csvText, passed)
  \/ \E id \in 1..(MaxHistoryCalls + 1) : DeleteEntry(id)
SpecHistory == Init /\ [][HistoryNext]_vars

(* ------------------------------ filterData ----------------------------- *)
\* Datasets as a load makes them (row k has id k - 1) and selections over ids that may
\* or may not be in the dataset.
FilterDatasets == {[ids |-> [k \in 1..n |-> k - 1], id |-> 1] : n \in 0..(MaxRows + 1)}
FilterSelections == SUBSET (0..(MaxRows + 1))

CallFilterData(d, selectedIds, mode) ==
  /\ probe = NoCall
  /\ probe' = [fn |-> "filterData", d |-> d, selectedIds |-> selectedIds, mode |-> mode,
               out |-> filterData(d, selectedIds, mode)]
  /\ UNCHANGED programVars

FilterNext ==
  \E d \in FilterDatasets, selectedIds \in FilterSelections, mode \in FilterModes :
     CallFilterData(d, selectedIds, mode)
SpecFilter == Init /\ [][FilterNext]_vars

(* ------------------- column stats over field values ------------------- *)
\* Numbers are counted in units of 1e-9, the epsilon of the stats code: Nano is the
\* number 1.  A JavaScript number is finite (n units) or not (NaN, +-Infinity).
Nano == 1000000000
Epsilon == 1
Num(n) == [finite |-> TRUE, n |-> n]
NaN == [finite |-> FALSE, n |-> 0]
Infinity == [finite |-> FALSE, n |-> 1]
NegInfinity == [finite |-> FALSE, n |-> -1]
isFinite(x) == x.finite

\* A field of a parsed row: a number, the number Infinity (a literal too large for a
\* double), null (an empty field), a text such as "abc", or undefined (a missing field).
MaxStatRows == 2
StatNumbers == {-Nano, 0, 2, Nano}
FieldValues ==
  {[type |-> "number", n |-> k] : k \in StatNumbers}
    \cup {[type |-> t, n |-> 0] : t \in {"infinity", "null", "string", "undefined"}}
FieldColumns == UNION {[1..n -> FieldValues] : n \in 0..MaxStatRows}

\* +row[col.name] and Number(row[name]): the numeric coercion of a field.
toNumber(field) ==
  CASE field.type = "number" -> Num(field.n)
    [] field.type = "infinity" -> Infinity
    [] field.type = "null" -> Num(0)
    [] OTHER -> NaN

\* a < b and a > b of two numbers neither of which is NaN.
lessThan(a, b) ==
  IF a.finite /\ b.finite THEN a.n < b.n
  ELSE IF a.finite THEN b = Infinity
  ELSE a = NegInfinity /\ b # NegInfinity
greaterThan(a, b) == lessThan(b, a)

\* The scan of one column: min, max and minPositive over the finite coercions.
RECURSIVE statScan(_, _, _)
statScan(fields, k, stat) ==
  IF k > Len(fields) THEN stat
  ELSE LET value == toNumber(fields[k])
       IN IF ~isFinite(value) THEN statScan(fields, k + 1, stat)
          ELSE statScan(fields, k + 1,
                 [min |-> IF lessThan(value, stat.min) THEN value ELSE stat.min,
                  max |-> IF greaterThan(value, stat.max) THEN value ELSE stat.max,
                  minPositive |-> IF value.n > 0 /\ lessThan(value, stat.minPositive)
                                    THEN value ELSE stat.minPositive])
EmptyStat == [min |-> Infinity, max |-> NegInfinity, minPositive |-> Infinity]

\* The stats pass of the matrix for one visible column over the rows of dataForStats.
columnStat(fields) ==
  LET stat == statScan(fields, 1, EmptyStat)
      min == IF ~isFinite(stat.min) THEN 0 ELSE stat.min.n
      max == IF ~isFinite(stat.max) THEN Nano ELSE stat.max.n
      minPositive == IF ~isFinite(stat.minPositive) THEN Max(Epsilon, max) ELSE stat.minPositive.n
  IN IF min = max THEN [min |-> min - Nano, max |-> max + Nano, minPositive |-> minPositive]
     ELSE [min |-> min, max |-> max, minPositive |-> minPositive]

\* computeStatsForSubset for one column name.
computeStatsForSubset(fields) ==
  IF Len(fields) = 0 THEN [min |-> 0, max |-> Nano, minPositive |-> Nano]
  ELSE LET stat == statScan(fields, 1, EmptyStat)
           min == IF ~isFinite(stat.min) THEN 0 ELSE stat.min.n
           max == IF ~isFinite(stat.max) THEN Nano ELSE stat.max.n
           fallback == IF max > 0 THEN max ELSE Nano
           minPositive == IF ~isFinite(stat.minPositive)
                            THEN (IF fallback > 0 THEN fallback ELSE Epsilon)
                            ELSE stat.minPositive.n
       IN IF min = max THEN [min |-> min - Nano, max |-> max + Nano, minPositive |-> minPositive]
          ELSE [min |-> min, max |-> max, minPositive |-> minPositive]

CallColumnStat(fields) ==
  /\ probe = NoCall
  /\ probe' = [fn |-> "columnStats", fields |-> fields, out |-> columnStat(fields)]
  /\ UNCHANGED programVars
CallComputeStatsForSubset(fields) ==
  /\ probe = NoCall
  /\ probe' = [fn |-> "computeStatsForSubset", fields |-> fields,
               out |-> computeStatsForSubset(fields)]
  /\ UNCHANGED programVars

\* The loop of the histogram brush: the ids of the rows whose coerced value lies between
\* the inverted ends of the range.  NaN fails every comparison, +-Infinity one of the two.
rangeSelect(stat, fields, x0, x1) ==
  LET r0 == padding \div 2
      r1 == size - padding \div 2
      minTimes == invertTimes(stat, r0, r1, x0)
      maxTimes == invertTimes(stat, r0, r1, x1)
      atLeast(val) == IF val.finite THEN val.n * (r1 - r0) >= minTimes ELSE val = Infinity
      atMost(val) == IF val.finite THEN val.n * (r1 - r0) <= maxTimes ELSE val = NegInfinity
  IN {k - 1 : k \in {e \in 1..Len(fields) :
                      atLeast(toNumber(fields[e])) /\ atMost(toNumber(fields[e]))}}

\* The rows of a cell as the grid sees them: the row at place k has id k - 1, its x field
\* from one column and its y field from another, under the scales of those columns.
FieldRows(xFields, yFields) ==
  LET statX == columnStat(xFields)
      statY == columnStat(yFields)
  IN [k \in 1..Len(xFields) |->
        LET x == toNumber(xFields[k])
            y == toNumber(yFields[k])
        IN IF isFinite(x) /\ isFinite(y)
             THEN GridRow(k - 1, TRUE, xScale(statX, x.n), yScale(statY, y.n))
             ELSE GridRow(k - 1, FALSE, 0, 0)]

\* Columns a cell is brushed on: x fields of every kind, among them two different finite
\* numbers, and a y column of numbers only.
BrushNumbers == {2, 4}
BrushFieldValues ==
  {[type |-> "number", n |-> k] : k \in BrushNumbers}
    \cup {[type |-> t, n |-> 0] : t \in {"infinity", "null", "string", "undefined"}}
BrushFieldColumns ==
  {fields \in [1..(MaxStatRows + 1) -> BrushFieldValues] :
     \E j, k \in 1..Len(fields) :
        /\ isFinite(toNumber(fields[j])) /\ isFinite(toNumber(fields[k]))
        /\ toNumber(fields[j]) # toNumber(fields[k])}
NumberColumn(n) == [k \in 1..n |-> [type |-> "number", n |-> IF k = 1 THEN 0 ELSE 2]]

\* A 2-D brush over the rectangle R of a cell with the x column fields, and a histogram
\* brush over the x range of R on the same column.
CallBrushColumn(fields, R) ==
  /\ probe = NoCall
  /\ LET grid == createSpatialGrid(FieldRows(fields, NumberColumn(Len(fields))))
     IN probe' = [fn |-> "brushColumn", fields |-> fields, rect |-> R,
                  placed |-> UNION {{grid[g][k].id : k \in 1..Len(grid[g])} : g \in GridCells},
                  brushed |-> getPointsInBrush(grid, R[1], R[2], R[3], R[4]),
                  ranged |-> rangeSelect(columnStat(fields), fields, R[1], R[3])]
  /\ UNCHANGED programVars

StatsNext ==
  \/ \E fields \in FieldColumns : CallColumnStat(fields)
  \/ \E fields \in FieldColumns : CallComputeStatsForSubset(fields)
  \/ \E fields \in BrushFieldColumns, R \in GestureRects \ {Null} : CallBrushColumn(fields, R)
SpecStats == Init /\ [][StatsNext]_vars

(* ------------------------------- claims -------------------------------- *)
Live(r) == runs[r].used /\ ~runs[r].cancelled /\ runs[r].completed < Len(runs[r].tasks)
EventsOf(r) == {e \in 1..Len(emitted) : emitted[e].src = r}
LastEvent == emitted[Len(emitted)]
\* The step just taken ended run r with its terminal idle event, and nobody cancelled it.
TerminalIdle(r) ==
  /\ runs[r].used /\ ~runs[r].cancelCalled
  /\ emitted # <<>> /\ LastEvent.src = r /\ LastEvent.phase = "idle"

\* C1: when a run over a non-empty task list completes without cancellation, its terminal
\* idle event reports completed = total = number of tasks, every task ran exactly once, and
\* for every task the last-applied render key of its cell is that task's render key.
C1_CompletedRunAppliedEveryKey ==
  \A r \in Slots :
    TerminalIdle(r) =>
      /\ LastEvent.completed = LastEvent.total
      /\ LastEvent.total = Len(runs[r].tasks)
      /\ \A k \in 1..Len(runs[r].tasks) :
           /\ runs[r].executed[k] = 1
           /\ runs[r].tasks[k].canvasKey \in DOMAIN canvasRenderKey
           /\ canvasRenderKey[runs[r].tasks[k].canvasKey] = runs[r].tasks[k].renderKey

\* C2 as stated: within a tick no task starts once 4 tasks have run in it, and none starts
\* once the tick has used more than 12 ms.
C2_NoStartAfterQuotaOrBudget ==
  tick.started => tick.atProcessed < FrameTaskQuota /\ tick.atElapsed <= FrameBudgetMs

\* C2 amended: within a tick no task starts once 4 tasks have run in it and the tick has
\* used 12 ms or more; until both hold the tick goes on with the queue.
C2_NoStartAfterQuotaAndBudget ==
  tick.started => tick.atProcessed < FrameTaskQuota \/ tick.atElapsed < FrameBudgetMs

\* A fifth task of one tick starts, inside the time budget.
C2_Witness ==
  tick.started /\ tick.atProcessed >= FrameTaskQuota /\ tick.atElapsed < FrameBudgetMs

\* C3: once cancel() has been called on a run, processFrame of that run never executes
\* again (no task, no write to the cache or the key map, no progress event), and the only
\* event the run emits from then on is the single idle event of cancel(), which carries
\* the completed count reached so far.
C3_CancelStopsRun ==
  \A r \in Slots :
    runs[r].used /\ runs[r].cancelCalled =>
      /\ tick.run # r
      /\ runs[r].idles >= 1
      /\ Cardinality(EventsOf(r)) <= 1
      /\ \A e \in EventsOf(r) :
           emitted[e] = Event(r, "idle", runs[r].totalCount,
                              Min(runs[r].completed, runs[r].totalCount))

\* cancel() has just stopped a run part-way and reported the partial count.
C3_Witness ==
  \E r \in Slots :
    /\ runs[r].used /\ runs[r].cancelCalled
    /\ runs[r].completed > 0 /\ runs[r].completed < Len(runs[r].tasks)
    /\ EventsOf(r) # {}

\* C4: schedule() cancels the run in flight, so at most one run is live (neither cancelled
\* nor completed), a live run is never one that a later schedule() call has superseded,
\* and processFrame never executes for a superseded run.
C4_OneLiveRun ==
  /\ Cardinality({r \in Slots : Live(r)}) <= 1
  /\ \A r \in Slots : Live(r) => ~runs[r].superseded
  /\ tick.run # 0 => ~runs[tick.run].superseded

\* A run that was in flight has just been superseded by a new live run.
C4_Witness ==
  \E r, q \in Slots :
    /\ r # q /\ Live(q)
    /\ runs[r].used /\ runs[r].superseded /\ runs[r].completed < Len(runs[r].tasks)

\* C5: while the drag flag is set no run is live and no task executes: the drag start
\* cancelled the run in flight, and every step that reports while the flag is set (the drag
\* start, a layout pass) reports only idle events, the last one being idle with 0 of 0.
C5_DragStandsDown ==
  isDragging =>
    /\ tick.run = 0
    /\ \A r \in Slots : ~Live(r)
    /\ emitted # <<>> =>
         /\ \A e \in 1..Len(emitted) : emitted[e].phase = "idle"
         /\ LastEvent = Event(0, "idle", 0, 0)

\* A layout pass ran after a drop while the drag flag was still set: it reported idle and
\* left a cell without a render key; the drag had cancelled a run in flight.
C5_Witness ==
  /\ isDragging /\ dragIndex = -1 /\ ~dirty
  /\ emitted = << Event(0, "idle", 0, 0) >>
  /\ canvasElements \ DOMAIN canvasRenderKey # {}

\* C6: after a load has replaced the rows and has been rendered, every cell that holds a
\* last-applied key shows a raster drawn from the rows now loaded: none was kept by key
\* equality or restored from the cache with the raster of the previous dataset.
C6_ReloadRendersFromNewRows ==
  mounted /\ ~dirty =>
    \A k \in canvasElements \cap DOMAIN canvasRenderKey :
      ~canvasPixels[k].blank /\ canvasPixels[k].dat = data.id

\* C7: no layout pass compares a cell with, or looks up in the cache, a key of another
\* dataset fingerprint: when the fingerprint changes the cache and the key map are emptied
\* first, so every key they hold carries the fingerprint seen last.
C7_FingerprintChangeClearsFirst ==
  /\ ~staleRead
  /\ mounted =>
       /\ \A k \in DOMAIN canvasRenderKey : KeyDataPart(canvasRenderKey[k]) = lastDataState
       /\ \A k \in DOMAIN renderCache :
            \A key \in CacheKeys(renderCache[k]) : KeyDataPart(key) = lastDataState

\* A reload with another row count has just been rendered: the cache and the key map are
\* empty while the canvases still show the rasters of the previous rows.
C7_Witness ==
  /\ mounted /\ ~dirty /\ loads >= 2
  /\ lastDataState = dataStateHash(data)
  /\ canvasRenderKey = EmptyMap /\ renderCache = EmptyMap
  /\ \E k \in canvasElements : ~canvasPixels[k].blank /\ canvasPixels[k].dat # data.id

\* C8: each cell's cache holds at most 6 entries.
C8_CacheBounded ==
  \A k \in DOMAIN renderCache : Len(renderCache[k]) <= MAX_CACHE_ENTRIES_PER_CANVAS

\* A cell's cache is full after an insertion that evicted an entry.
C8_Witness ==
  \E k \in DOMAIN renderCache :
    /\ Len(renderCache[k]) = MAX_CACHE_ENTRIES_PER_CANVAS
    /\ k \in DOMAIN cacheUse /\ cacheUse[k].evicted # <<>>

\* C9: a step that inserts a new key into a full cell cache evicts exactly one entry, the
\* one used (inserted or hit) longest ago, and keeps the entry it inserted.
C9_Eviction ==
  \A k \in DOMAIN renderCache \cap DOMAIN renderCache' :
    LET old == CacheKeys(renderCache[k])
        new == CacheKeys(renderCache'[k])
    IN Cardinality(old) = MAX_CACHE_ENTRIES_PER_CANVAS /\ new \ old # {} =>
         /\ Cardinality(new \ old) = 1
         /\ old \ new = {Head(cacheUse[k].order)}
         /\ Cardinality(new) = MAX_CACHE_ENTRIES_PER_CANVAS
C9_EvictsLeastRecentlyUsed == [][C9_Eviction]_vars

\* An eviction passed over the entry inserted first, which a hit had refreshed: it is still
\* cached, and a younger insertion is gone.
C9_Witness ==
  \E k \in DOMAIN renderCache :
    /\ k \in DOMAIN cacheUse /\ cacheUse[k].evicted # <<>>
    /\ \E key \in CacheKeys(renderCache[k]) :
         /\ key = k \o <<"linear", "linear", "highlight">> \o lastDataState
                    \o <<"none", ToString(size)>>
         /\ cacheUse[k].evicted # key
         /\ renderCache[k][1].key # key

\* C10: every cached key carries the selection fingerprint "none" and every cached raster
\* was drawn without a selection; a cell whose last-applied key carries a selection shows a
\* raster drawn with that selection, not one restored from the cache.
C10_CacheOnlyWithoutSelection ==
  /\ \A k \in DOMAIN renderCache : \A e \in 1..Len(renderCache[k]) :
       /\ KeySelectionPart(renderCache[k][e].key) = <<"none">>
       /\ renderCache[k][e].image.selected = {}
  /\ \A k \in canvasElements \cap DOMAIN canvasRenderKey :
       KeySelectionPart(canvasRenderKey[k]) # <<"none">> => canvasPixels[k].selected # {}

\* A task drawn with a selection has run on a cell whose cache holds entries: its key was
\* applied to the cell and not cached.
C10_Witness ==
  \E r \in Slots :
    /\ runs[r].used /\ runs[r].selected # {} /\ runs[r].completed > 0
    /\ LET t == runs[r].tasks[1]
       IN /\ t.canvasKey \in DOMAIN renderCache /\ renderCache[t.canvasKey] # <<>>
          /\ t.renderKey \notin CacheKeys(renderCache[t.canvasKey])
          /\ t.canvasKey \in DOMAIN canvasRenderKey
          /\ canvasRenderKey[t.canvasKey] = t.renderKey

\* C11: the grid query returns exactly the ids of the rows with finite values whose screen
\* position lies inside the rectangle, bounds included: the same set as a scan of all rows.
C11_GridQueryIsBruteForce ==
  probe.fn = "getPointsInBrush" =>
    probe.out = { d.id : d \in { r \in probe.rows :
                    /\ r.finite
                    /\ r.sx >= probe.rect[1] /\ r.sx <= probe.rect[3]
                    /\ r.sy >= probe.rect[2] /\ r.sy <= probe.rect[4] } }

C13_HashIgnoresInsertionOrder ==
  probe.fn = "computeSelectedStateHash" =>
    /\ Members(probe.a) = Members(probe.b) => probe.outA = probe.outB
    /\ Len(probe.a) = 0 => probe.outA = <<"none">>

\* The same members were added in two different orders and hashed to the same string.
C13_Witness ==
  /\ probe.fn = "computeSelectedStateHash"
  /\ Members(probe.a) = Members(probe.b) /\ probe.a # probe.b
  /\ probe.outA = probe.outB /\ probe.outA # <<"none">>

\* C17: in every reachable state the ids of the committed selection are ids of rows of the
\* dataset now loaded, whatever brushes, clears and loads (empty ones included) came before.
C17_SelectionWithinDataset ==
  selectedIdsOf(brushSelection) \subseteq {data.ids[k] : k \in 1..Len(data.ids)}

NamesOf(items) == [k \in 1..Len(items) |-> items[k].name]

\* C18: for every column list and every filter text filterColumns returns the columns in
\* the order of its input, so no column's original index changes.
C18_FilterKeepsOrder ==
  probe.fn = "filterColumns" => NamesOf(probe.out.items) = NamesOf(probe.cols)

Blank(text) == \A k \in 1..Len(text) : text[k] = " "
AllVisible(cols) == \A k \in 1..Len(cols) : cols[k].visible
Shown(cols) == [k \in 1..Len(cols) |-> [cols[k] EXCEPT !.visible = TRUE]]

C20_MapsAreInverse ==
  probe.fn = "mapVisibleColumns" =>
    LET cols == probe.cols
        shown == probe.out.visibleColumns
        v2o == probe.out.visibleToOriginal
        o2v == probe.out.originalToVisible
    IN /\ DOMAIN v2o = 1..Len(shown)
       /\ DOMAIN o2v = {o \in 1..Len(cols) : cols[o].visible}
       /\ \A v \in DOMAIN v2o :
            /\ v2o[v] \in DOMAIN o2v /\ o2v[v2o[v]] = v
            /\ shown[v] = cols[v2o[v]]
       /\ \A o \in DOMAIN o2v : o2v[o] \in DOMAIN v2o /\ v2o[o2v[o]] = o
       /\ \A v, w \in DOMAIN v2o : v < w => v2o[v] < v2o[w]

\* Three columns with the first one hidden were mapped: visible index 1 is original
\* index 2, and original index 1 has no entry.
C20_Witness ==
  /\ probe.fn = "mapVisibleColumns"
  /\ Len(probe.cols) = 3 /\ ~probe.cols[1].visible
  /\ probe.cols[2].visible /\ probe.cols[3].visible
  /\ probe.out.visibleToOriginal[1] = 2
  /\ 1 \notin DOMAIN probe.out.originalToVisible

\* C14: a brush end event without a source event, as the sync of the layout pass dispatches
\* it, makes no handler call onBrush: not the 2-D one and not those of the two histogram
\* brushes.  No layout pass therefore calls onBrush.
C14_SyncNeverCallsOnBrush == brushSync.calls = <<>>

\* A layout pass has moved the brush of one histogram to the committed range: the end
\* event it dispatched carried that range and no source event.
C14_Witness ==
  /\ brushSync.moves = 1
  /\ brushSelection.live /\ brushSelection.indexY = Len(columns)

\* The rows whose screen position under the scales of the current render lies inside the
\* rectangle, bounds included.
RowsInside(rect) ==
  LET stat == Context(data, columns, brushSelection, filterMode, FALSE).stat
  IN { data.ids[k] : k \in { e \in 1..Len(data.ids) :
         /\ xScale(stat, rowValue(data.ids[e])) >= rect[1]
         /\ xScale(stat, rowValue(data.ids[e])) <= rect[3]
         /\ yScale(stat, rowValue(data.ids[e])) >= rect[2]
         /\ yScale(stat, rowValue(data.ids[e])) <= rect[4] } }

\* C15: every user gesture end commits null when the gesture leaves no region, and
\* otherwise a new selection whose ids are exactly the rows inside the new region, whatever
\* was selected before.  (Every gesture end is a user operation, and only those steps
\* count one.)
C15_GestureStep ==
  ops' # ops =>
    /\ \A cell \in GestureCells, region \in GestureRects :
         userBrushEnd(cell, region) =>
           IF region = Null THEN brushSelection' = NoSelection
           ELSE /\ brushSelection'.live /\ brushSelection'.rect = region
                /\ brushSelection'.ids = RowsInside(region)
    /\ \A i \in 1..2, range \in GestureRanges :
         userBrushXEnd(i, range) =>
           IF range = Null THEN brushSelection' = NoSelection
           ELSE /\ brushSelection'.live
                /\ brushSelection'.ids = RowsInside(<<range[1], 0, range[2], size>>)
    /\ \A j \in 1..2, range \in GestureRanges :
         userBrushYEnd(j, range) =>
           IF range = Null THEN brushSelection' = NoSelection
           ELSE /\ brushSelection'.live
                /\ brushSelection'.ids = RowsInside(<<0, range[1], size, range[2]>>)
C15_GestureReplacesSelection == [][C15_GestureStep]_vars

\* An original index of a column that is visible now.
VisibleOriginal(i) == i \in 0..(Len(columns) - 1) /\ columns[i + 1].visible

\* C16: a selection emitted by the 2-D brush is tagged with two different original indices
\* of visible columns; one emitted by a histogram brush is tagged with one such index and,
\* on the other axis, with the number of columns, which is no column's index.  (Every
\* emission is a user operation, and only those steps count one.)
C16_EmissionStep ==
  ops' # ops =>
    /\ \A cell \in GestureCells, region \in GestureRects :
         userBrushEnd(cell, region) /\ brushSelection'.live =>
           /\ VisibleOriginal(brushSelection'.indexX) /\ VisibleOriginal(brushSelection'.indexY)
           /\ brushSelection'.indexX # brushSelection'.indexY
    /\ \A i \in 1..2, range \in GestureRanges :
         userBrushXEnd(i, range) /\ brushSelection'.live =>
           /\ VisibleOriginal(brushSelection'.indexX)
           /\ brushSelection'.indexY = Len(columns)
           /\ brushSelection'.indexY \notin 0..(Len(columns) - 1)
    /\ \A j \in 1..2, range \in GestureRanges :
         userBrushYEnd(j, range) /\ brushSelection'.live =>
           /\ VisibleOriginal(brushSelection'.indexY)
           /\ brushSelection'.indexX = Len(columns)
           /\ brushSelection'.indexX \notin 0..(Len(columns) - 1)
C16_TagsAreOriginalIndices == [][C16_EmissionStep]_vars

\* A 2-D brush over the second and third column while the first one is hidden has been
\* committed with the original indices 1 and 2.
C16_Witness ==
  /\ Len(columns) = 3 /\ ~columns[1].visible
  /\ brushSelection.live
  /\ brushSelection.indexX = 1 /\ brushSelection.indexY = 2

\* C21: for in-range indices, reordering at i, j and then at j, i gives back the list;
\* reordering at i, i gives the list; the result holds the same columns, each with its
\* name, scale and visible flag, the two named ones having changed places; and the list
\* handed in is as it was.
C21_ReorderRoundTrip ==
  probe.fn = "reorderColumns" =>
    /\ probe.back = probe.cols
    /\ probe.i = probe.j => probe.out = probe.cols
    /\ Len(probe.out) = Len(probe.cols)
    /\ probe.out[probe.i] = probe.cols[probe.j] /\ probe.out[probe.j] = probe.cols[probe.i]
    /\ \A k \in 1..Len(probe.cols) : k \notin {probe.i, probe.j} => probe.out[k] = probe.cols[k]
    /\ probe.fresh /\ probe.after = probe.cols

\* Two different columns of a list of three, one of them hidden, were swapped.
C21_Witness ==
  /\ probe.fn = "reorderColumns"
  /\ Len(probe.cols) = 3 /\ probe.i = 1 /\ probe.j = 3
  /\ ~probe.cols[2].visible
  /\ probe.out # probe.cols /\ probe.back = probe.cols

\* The rows with a selected id, in dataset order.
SelectedRows(d, bs) == SelectSeq(d.ids, LAMBDA i : i \in selectedIdsOf(bs))

\* C22: in highlight mode, and in filter mode with an empty selection, the column stats
\* are those of the full dataset, so a step that changes only the selection, from and to
\* such a state, leaves the stats, and with them every row's position under the scales,
\* as they were; in filter mode with a non-empty selection the stats are those of
\* exactly the selected rows.
C22_StatsStep ==
  LET stat == Context(data, columns, brushSelection, filterMode, FALSE).stat
      statNext == Context(data', columns', brushSelection', filterMode', FALSE).stat
      restricted == filterMode = "filter" /\ selectedIdsOf(brushSelection) # {}
      restricts == filterMode' = "filter" /\ selectedIdsOf(brushSelection') # {}
      selectionOnly == /\ brushSelection' # brushSelection
                       /\ data' = data /\ columns' = columns /\ filterMode' = filterMode
  IN /\ restricts => statNext = columnStats(SelectedRows(data', brushSelection'))
     /\ ~restricts => statNext = columnStats(data'.ids)
     /\ selectionOnly /\ ~restricted /\ ~restricts =>
          /\ statNext = stat
          /\ \A k \in 1..Len(data.ids) :
               /\ xScale(statNext, rowValue(data.ids[k])) = xScale(stat, rowValue(data.ids[k]))
               /\ yScale(statNext, rowValue(data.ids[k])) = yScale(stat, rowValue(data.ids[k]))
C22_SelectionAloneKeepsStats == [][C22_StatsStep]_vars

\* Highlight mode with some but not all rows selected, rows whose own stats differ from
\* the dataset's, while the stats in use are the dataset's.
C22_Witness ==
  /\ mounted /\ filterMode = "highlight"
  /\ brushSelection.live /\ brushSelection.ids # {}
  /\ SelectedRows(data, brushSelection) # data.ids
  /\ columnStats(SelectedRows(data, brushSelection)) # columnStats(data.ids)
  /\ Context(data, columns, brushSelection, filterMode, FALSE).stat = columnStats(data.ids)

\* The finite numbers among the coercions of a column's fields.
FiniteOf(fields) == {toNumber(fields[k]).n : k \in {j \in 1..Len(fields) : isFinite(toNumber(fields[j]))}}

\* C23: the stats of every column over every row subset have min < max and
\* minPositive > 0; they are {0, 1, 1} when no value is finite; they are {v - 1, v + 1}
\* when every finite value is v; and when no value is positive minPositive is max (as
\* scanned or as padded) or the epsilon.
C23_StatsNormalized ==
  probe.fn \in {"columnStats", "computeStatsForSubset"} =>
    LET finite == FiniteOf(probe.fields)
        out == probe.out
    IN /\ out.min < out.max /\ out.minPositive > 0
       /\ finite = {} => out = [min |-> 0, max |-> Nano, minPositive |-> Nano]
       /\ \A v \in finite : finite = {v} => out.min = v - Nano /\ out.max = v + Nano
       /\ (\A v \in finite : v <= 0) =>
            \/ out.minPositive = Epsilon
            \/ out.minPositive = out.max
            \/ \E v \in finite : out.minPositive = v /\ \A w \in finite : w <= v

\* A field that is not a finite number: NaN, text, null, a missing field, Infinity.
NotANumber(field) == field.type # "number"

\* C24: a row whose field in a column is not a finite number is skipped for that column:
\* the column's stats are those of the other rows, the row is in no bucket of a grid built
\* on the column, and it is in no brush or range selection made on the column.
C24_NonNumericSkipped ==
  /\ probe.fn = "columnStats" =>
       probe.out = columnStat(SelectSeq(probe.fields, LAMBDA f : ~NotANumber(f)))
  /\ probe.fn = "brushColumn" =>
       \A k \in 1..Len(probe.fields) :
          NotANumber(probe.fields[k]) =>
            /\ (k - 1) \notin probe.placed
            /\ (k - 1) \notin probe.brushed
            /\ (k - 1) \notin probe.ranged

\* sub holds members of the list all, each once, in the order they have in all.
IsSublist(sub, all) ==
  /\ \A k \in 1..Len(sub) : \E e \in 1..Len(all) : all[e] = sub[k]
  /\ \A j, k \in 1..Len(sub) : j < k =>
       \E e, f \in 1..Len(all) : e < f /\ all[e] = sub[j] /\ all[f] = sub[k]

\* C25: selectedData is the rows with a selected id, in dataset order; filteredData is
\* the whole dataset in highlight mode or when nothing is selected, and is selectedData
\* in filter mode with a non-empty selection; so selectedData is within filteredData,
\* which is within the dataset.
C25_FilterDataPartition ==
  probe.fn = "filterData" =>
    LET rows == probe.d.ids
        out == probe.out
    IN /\ IsSublist(out.selectedData, rows)
       /\ \A k \in 1..Len(rows) :
            rows[k] \in probe.selectedIds <=> \E e \in 1..Len(out.selectedData) : out.selectedData[e] = rows[k]
       /\ (probe.mode = "highlight" \/ probe.selectedIds = {}) => out.filteredData = rows
       /\ (probe.mode = "filter" /\ probe.selectedIds # {}) => out.filteredData = out.selectedData
       /\ IsSublist(out.selectedData, out.filteredData)
       /\ IsSublist(out.filteredData, rows)

\* Filter mode with some but not all rows selected: filteredData is those rows only.
C25_Witness ==
  /\ probe.fn = "filterData" /\ probe.mode = "filter"
  /\ Len(probe.d.ids) = 3 /\ probe.selectedIds = {0, 2}
  /\ probe.out.filteredData = <<0, 2>> /\ probe.out.selectedData = <<0, 2>>

\* C26: every event has 0 <= completed <= total; the completed counts a run reports, in
\* one step and from step to step, never decrease; and the end of every tick reports
\* progress first.
C26_EventsStep ==
  /\ \A e \in 1..Len(emitted') :
       0 <= emitted'[e].completed /\ emitted'[e].completed <= emitted'[e].total
  /\ \A r \in Slots :
       LET own == {e \in 1..Len(emitted') : emitted'[e].src = r}
       IN /\ \A e, f \in own : e < f => emitted'[e].completed <= emitted'[f].completed
          /\ runs[r].used => \A e \in own : runs[r].reported <= emitted'[e].completed
  /\ tick.run # 0 /\ tick'.run = 0 =>
       /\ emitted' # <<>>
       /\ emitted'[1].src = tick.run /\ emitted'[1].phase = "rendering"
       /\ emitted'[1].completed = runs'[tick.run].completed
C26_ProgressMonotone == [][C26_EventsStep]_vars

\* A tick has just ended part-way through a run, which had reported 0 of its tasks when
\* it started: the progress event of the tick carries the count reached.
C26_Witness ==
  \E r \in Slots :
    /\ runs[r].used /\ ~runs[r].cancelled /\ tick.run = 0
    /\ runs[r].completed >= FrameTaskQuota /\ runs[r].completed < Len(runs[r].tasks)
    /\ runs[r].reported = runs[r].completed
    /\ emitted = << Event(r, "rendering", runs[r].totalCount, runs[r].completed) >>

\* C27: when reading the raster back for the cache fails, the iteration goes on as one
\* that caches nothing: the cell shows the drawn raster and holds its key, the cache is
\* as it was, the count goes up and the frame continues; and a run in which this
\* happened, once through its queue and not cancelled, has executed every task once and
\* has reported idle with completed = total.
C27_FailureStep ==
  /\ tick.run # 0 /\ TaskStepThrows =>
       LET run == runs[tick.run]
           task == run.tasks[run.completed + 1]
       IN /\ runs'[tick.run].completed = run.completed + 1
          /\ ~runs'[tick.run].cancelled /\ tick'.run = tick.run
          /\ canvasRenderKey'[task.canvasKey] = task.renderKey
          /\ task.canvasKey \in canvasElements =>
               canvasPixels'[task.canvasKey] =
                 renderPointsToCanvas(run.dat, run.rows, task, run.selected, run.mode)
          /\ renderCache' = renderCache
  /\ \A r \in Slots :
       /\ runs'[r].used /\ runs'[r].failed /\ ~runs'[r].cancelled
       /\ runs'[r].completed = Len(runs'[r].tasks) /\ tick'.run # r
       => /\ \A k \in 1..Len(runs'[r].tasks) : runs'[r].executed[k] = 1
          /\ runs'[r].idles = 1 /\ runs'[r].reported = runs'[r].totalCount
EntriesOf(store) == {store.entries[k] : k \in 1..Len(store.entries)}
Saved ==
  /\ fileStore'.calls # fileStore.calls /\ fileStore'.last.fn = "saveFile"
  /\ TextLength(fileStore'.last.csvText) <= MAX_FILE_SIZE

\* C28: the history never holds more than 5 entries; and a save of a new filename into a
\* history of 5 removes one entry, one whose timestamp is the oldest, keeps the others
\* and adds the new file.
C28_HistoryStep ==
  /\ Len(fileStore'.entries) <= MAX_ENTRIES
  /\ Saved /\ Len(fileStore.entries) = MAX_ENTRIES
       /\ fileStore'.last.filename \notin StoredNames(fileStore) =>
       LET before == EntriesOf(fileStore)
           after == EntriesOf(fileStore')
       IN /\ \E gone \in before :
               /\ before \ after = {gone}
               /\ \A e \in before : gone.timestamp <= e.timestamp
          /\ \E added \in after :
               /\ after \ before = {added}
               /\ added.filename = fileStore'.last.filename
               /\ added.csvText = fileStore'.last.csvText
C28_HistoryBounded == [][C28_HistoryStep]_vars

\* A sixth filename has been saved into a full history: the history is full again, and
\* the file saved first is gone.
C28_Witness ==
  /\ fileStore.last.fn = "saveFile" /\ fileStore.last.filename = MAX_ENTRIES + 1
  /\ Len(fileStore.entries) = MAX_ENTRIES
  /\ (MAX_ENTRIES + 1) \in StoredNames(fileStore) /\ 1 \notin StoredNames(fileStore)

\* C29: a save of a filename that is in the history leaves exactly one entry with that
\* filename, which holds the new text and has the latest timestamp; the history has as
\* many entries as before and every entry with another filename is still there.
C29_ResaveStep ==
  Saved /\ fileStore'.last.filename \in StoredNames(fileStore) =>
    LET before == EntriesOf(fileStore)
        after == EntriesOf(fileStore')
        named == {e \in after : e.filename = fileStore'.last.filename}
    IN /\ Cardinality(named) = 1
       /\ \A e \in named : /\ e.csvText = fileStore'.last.csvText
                           /\ \A f \in after : f.timestamp <= e.timestamp
       /\ Len(fileStore'.entries) = Len(fileStore.entries)
       /\ \A e \in before : e.filename # fileStore'.last.filename => e \in after
C29_ResaveReplaces == [][C29_ResaveStep]_vars

\* A run that nobody cancelled and that has not reported idle.
Unfinished(r) == runs[r].used /\ ~runs[r].cancelled /\ runs[r].idles = 0

\* C30 (steps): a tick that ends has executed at least one task; a run that reports idle
\* without having been cancelled reports it once, with completed = total = the length
\* of its queue, all of it executed; no run exists for an empty queue, and a layout pass
\* that has nothing to draw reports idle in the same step and leaves no frame requested.
C30_TickStep ==
  /\ tick.run # 0 /\ tick'.run = 0 => tick.processed >= 1
  /\ \A r \in Slots :
       /\ runs'[r].used => Len(runs'[r].tasks) > 0
       /\ runs'[r].used /\ ~runs'[r].cancelled /\ runs'[r].idles > 0 =>
            /\ runs'[r].idles = 1
            /\ runs'[r].completed = Len(runs'[r].tasks)
            /\ runs'[r].reported = runs'[r].totalCount
            /\ runs'[r].totalCount = Len(runs'[r].tasks)
  /\ (mounted' /\ ~isDragging' /\ tick.run = 0 /\ tick'.run = 0 /\ pendingRenderCancel' = 0
        /\ emitted' # <<>>) =>
       /\ LastEvent'.phase = "idle" /\ LastEvent'.completed = LastEvent'.total
       /\ \A r \in Slots : ~(runs'[r].used /\ runs'[r].frame)

\* C30: under fair frames every run that is not cancelled reports idle, and does so as
\* the steps above say.
C30_RunsReachIdle ==
  /\ [][C30_TickStep]_vars
  /\ \A r \in Slots : Unfinished(r) ~> ~Unfinished(r)

\* A run of more than one tick has reported idle with all of its tasks completed.
C30_Witness ==
  \E r \in Slots :
    /\ runs[r].used /\ ~runs[r].cancelled /\ runs[r].idles = 1
    /\ Len(runs[r].tasks) > FrameTaskQuota /\ runs[r].completed = Len(runs[r].tasks)
    /\ emitted = << Event(r, "rendering", runs[r].totalCount, runs[r].totalCount),
                    Event(r, "idle", runs[r].totalCount, runs[r].totalCount) >>

\* The grid index of a screen coordinate, clamped to the grid.
ClampedIndex(screen) == Max(0, Min(gridSize - 1, FloorDiv(screen * gridSize, size)))

\* How often a row occurs in one bucket.
Occurrences(bucket, d) == Cardinality({k \in 1..Len(bucket) : bucket[k] = d})

\* C31: the grid holds every row with finite values exactly once, in the bucket whose
\* indices are floor(screen / size * gridSize) clamped to 0..gridSize-1, and in no other.
C31_EveryFiniteRowInOneBucket ==
  probe.fn = "getPointsInBrush" =>
    \A d \in probe.rows : d.finite =>
      \A g \in GridCells :
        Occurrences(probe.grid[g], d) =
          IF g = <<ClampedIndex(d.sx), ClampedIndex(d.sy)>> THEN 1 ELSE 0

\* The names of the base columns whose visible flag is set, in order.
VisibleBase(pan) == NamesOf(SelectSeq(pan.columns, LAMBDA c : c.visible))

\* C32: while the filter string is empty the plotted columns are exactly the base columns
\* whose visible flag is set, and a change of the filter string leaves the base columns
\* and their flags as they were.
C32_FilterStep ==
  /\ panel'.columnFilter = <<>> => NamesOf(plottedColumns(panel')) = VisibleBase(panel')
  /\ panel'.columnFilter # panel.columnFilter /\ panel'.last.fn = "handleColumnFilterChange" =>
       panel'.columns = panel.columns
C32_HiddenStaysHidden == [][C32_FilterStep]_vars

\* The lower-cased maximal alphabetic tokens of a name, and the columns (positions in the
\* list) whose name contains a token.
TokensOf(name) ==
  LET found == matchLetters(name, 1, <<>>) IN {toLowerCase(found[k]) : k \in 1..Len(found)}
ColumnsWith(names, token) == {k \in 1..Len(names) : token \in TokensOf(names[k])}

\* C33: detectColumnGroups returns a group for a token if and only if the token occurs in
\* at least 2 columns and in fewer than all columns; a token has at most one group, which
\* lists exactly the columns containing the token; groups come in non-increasing size; an
\* empty or single-column input yields no groups.
C33_GroupsAreSharedTokens ==
  probe.fn = "detectColumnGroups" =>
    LET names == probe.names
        out == probe.out
        tokens == UNION {TokensOf(names[k]) : k \in 1..Len(names)}
    IN /\ \A t \in tokens :
            (\E g \in 1..Len(out) : out[g].token = t)
              <=> /\ Cardinality(ColumnsWith(names, t)) >= 2
                  /\ Cardinality(ColumnsWith(names, t)) < Len(names)
       /\ \A g \in 1..Len(out) :
            /\ out[g].token \in tokens
            /\ \A h \in 1..Len(out) : out[h].token = out[g].token => h = g
            /\ {out[g].cols[c] : c \in 1..Len(out[g].cols)}
                 = {names[k] : k \in ColumnsWith(names, out[g].token)}
       /\ \A g \in 1..(Len(out) - 1) : Len(out[g].cols) >= Len(out[g + 1].cols)
       /\ Len(names) <= 1 => out = <<>>

\* The plotted cells: ordered pairs of different visible columns of the column list.
PlottedCells ==
  {cell \in (1..Len(columns)) \X (1..Len(columns)) :
     cell[1] # cell[2] /\ columns[cell[1]].visible /\ columns[cell[2]].visible}

\* The render key the next layout pass expects of a cell.
ExpectedKey(cell) ==
  renderKeyOf(columns[cell[1]], columns[cell[2]], filterMode, dataStateHash(data),
              computeSelectedStateHash(selectedIdsOf(brushSelection)))

\* img is a raster of the cell's two columns, drawn or restored under the key k: scales,
\* mode and selection are those that k names.
RasterOf(img, cell, k) ==
  /\ ~img.blank
  /\ img.xCol = columns[cell[1]].name /\ img.yCol = columns[cell[2]].name
  /\ k = img.xCol \o img.yCol \o <<img.xScale, img.yScale, img.mode>> \o KeyDataPart(k)
           \o computeSelectedStateHash(img.selected) \o <<ToString(size)>>

\* The step just taken was a layout pass that scheduled (not one of a drag).
SchedulingPass ==
  /\ mounted /\ ~isDragging /\ ~dirty /\ Len(data.ids) > 0 /\ emitted # <<>>
  /\ \/ LastEvent.phase = "rendering" /\ LastEvent.completed = 0
     \/ LastEvent.phase = "idle" /\ LastEvent.src = 0

\* The pending run holds a task of the cell under the key the cell expects.
Queued(cell) ==
  /\ pendingRenderCancel # 0
  /\ LET run == runs[pendingRenderCancel]
     IN \E t \in 1..Len(run.tasks) :
          /\ run.tasks[t].canvasKey = canvasKeyOf(columns[cell[1]], columns[cell[2]])
          /\ run.tasks[t].renderKey = ExpectedKey(cell)
          /\ run.tasks[t].xCol = columns[cell[1]].name
          /\ run.tasks[t].yCol = columns[cell[2]].name

\* C34: whenever a last-applied render key k is recorded for a plotted cell, the cell's
\* canvas holds the raster drawn (or restored from the cache) for that cell under k; and
\* after a layout pass that schedules, every plotted cell either has the key it expects
\* recorded or has a task in the new run, so a cell whose task was cancelled before it
\* ran is queued again.
C34_KeyMeansRaster ==
  /\ \A cell \in PlottedCells :
       LET canvasKey == canvasKeyOf(columns[cell[1]], columns[cell[2]])
       IN canvasKey \in DOMAIN canvasRenderKey =>
            /\ canvasKey \in DOMAIN canvasPixels
            /\ RasterOf(canvasPixels[canvasKey], cell, canvasRenderKey[canvasKey])
  /\ SchedulingPass =>
       \A cell \in PlottedCells :
         LET canvasKey == canvasKeyOf(columns[cell[1]], columns[cell[2]])
         IN \/ Queued(cell)
            \/ /\ canvasKey \in DOMAIN canvasRenderKey
               /\ canvasRenderKey[canvasKey] = ExpectedKey(cell)

\* Every plotted cell has the render key it expects recorded as its last-applied key.
AllCellsCurrent ==
  \A cell \in PlottedCells :
    LET canvasKey == canvasKeyOf(columns[cell[1]], columns[cell[2]])
    IN canvasKey \in DOMAIN canvasRenderKey /\ canvasRenderKey[canvasKey] = ExpectedKey(cell)

\* C35: whenever no drag is in progress over a loaded dataset (in particular once a drag
\* that cancelled a run in flight has ended, with or without a drop), every plotted cell
\* eventually has its expected render key applied, unless a new drag starts first.
C35_DragEndRenders ==
  (mounted /\ ~isDragging /\ dragIndex = 0 /\ Len(data.ids) > 0)
    ~> (isDragging \/ AllCellsCurrent)

\* C36: a run emits at most one idle event over its life, at completion or at cancellation
\* and never both; a run that has completed has emitted exactly the idle event of its
\* completion, whoever calls its cancel() afterwards.
C36_OneIdlePerRun ==
  \A r \in Slots :
    runs[r].used =>
      /\ runs[r].idles <= 1
      /\ runs[r].completed = Len(runs[r].tasks) /\ tick.run # r => ~runs[r].cancelled

\* C37: after every layout pass over a non-empty dataset the canvases attached to the plot
\* are exactly those of the off-diagonal ordered pairs of visible columns, and the
\* last-applied key map has no entry for any other canvas; with no column visible no
\* canvas remains.
C37_CanvasesAreVisiblePairs ==
  mounted /\ ~dirty /\ Len(data.ids) > 0 =>
    /\ canvasElements =
         {canvasKeyOf(columns[cell[1]], columns[cell[2]]) : cell \in PlottedCells}
    /\ DOMAIN canvasPixels = canvasElements
    /\ DOMAIN canvasRenderKey \subseteq canvasElements

\* C38: distinct ordered pairs of visible columns have distinct canvas keys, whatever the
\* column names, and no run holds two tasks for the same canvas.
C38_DistinctCanvasKeys ==
  /\ \A cell, other \in PlottedCells :
       cell # other => canvasKeyOf(columns[cell[1]], columns[cell[2]])
                         # canvasKeyOf(columns[other[1]], columns[other[2]])
  /\ \A r \in Slots :
       runs[r].used =>
         \A t, u \in 1..Len(runs[r].tasks) :
           t # u => runs[r].tasks[t].canvasKey # runs[r].tasks[u].canvasKey

\* C39: dropping the header of column A on the header of column B swaps exactly A and B in
\* the base column list and moves no other column, for every filter text and every
\* combination of hidden columns.
PositionOf(cols, name) == CHOOSE k \in 1..Len(cols) : cols[k].name = name
C39_DropStep ==
  (panel'.calls = panel.calls + 1 /\ panel'.last.fn = "drop") =>
    LET before == panel.columns
        posA == PositionOf(before, panel'.last.drag)
        posB == PositionOf(before, panel'.last.hover)
    IN panel'.columns = [k \in 1..Len(before) |->
                           IF k = posA THEN before[posB]
                           ELSE IF k = posB THEN before[posA]
                           ELSE before[k]]
C39_DropSwapsDraggedAndHovered == [][C39_DropStep]_vars

\* C40: in filter mode with a non-empty committed selection, the ids that a new 2-D brush
\* or histogram range brush commits are ids of rows displayed at the time of the gesture
\* (the filtered rows).
DisplayedIds ==
  LET shown == filterData(data, selectedIdsOf(brushSelection), filterMode).filteredData
  IN {shown[k] : k \in 1..Len(shown)}
C40_GestureStep ==
  (/\ filterMode = "filter" /\ selectedIdsOf(brushSelection) # {}
   /\ ops' # ops /\ brushSelection'.live
   /\ \/ \E cell \in GestureCells, region \in GestureRects : userBrushEnd(cell, region)
      \/ \E i \in 1..2, range \in GestureRanges : userBrushXEnd(i, range)
      \/ \E j \in 1..2, range \in GestureRanges : userBrushYEnd(j, range))
    => brushSelection'.ids \subseteq DisplayedIds
C40_GestureSelectsDisplayedRows == [][C40_GestureStep]_vars
====
